---- MODULE Spec2Model ----
(***************************************************************************)
(* The orchestration layer of whisperX-medical-transcribe: chunk planning, *)
(* chunk transcription with engine fallback, word-to-speaker attribution,  *)
(* segment grouping and smoothing, as run by run_transcribe_task           *)
(* ("new stack/server.py") and do_transcribe ("new stack/handler.py").     *)
(*                                                                         *)
(* Times are seconds.  The code computes midpoints (a + b) / 2 in floating *)
(* point; the model compares the doubled quantities (a + b against 2 * x), *)
(* which orders them exactly as the reals do.                              *)
(* A text is the sequence of its space-separated words.                    *)
(***************************************************************************)
EXTENDS Integers, Sequences, FiniteSets, TLC

\* ------------------------------------------------------------------ bounds

\* Largest number of turns of a timeline of the pipeline specification.
MaxTurns == 4
\* Largest number of turns of a timeline handed to the planner alone.
MaxPlanTurns == 3
\* Largest number of turns of a timeline handed to get_speaker_for_word alone.
MaxAttrTurns == 2
\* Largest number of words of a recording of the two-turn timelines.
MaxBoundaryWords == 3
\* the words of a text handed to the hallucination filter
MaxTextLen == 5
\* the worker threads of the server
MaxWorkers == 2
\* the requests served by the server
MaxRequests == 3
MaxSegments == 3
MaxPolls == 3

\* ------------------------------------------------------- program constants

\* `if elapsed >= 30 or is_last`: the target chunk duration T.
ChunkSeconds == 30
\* `pad = 10.0`: the context padding on each side of a chunk.
Pad == 10
\* progress written when a transcription run starts, and when it aligns.
ProgressStart == 10
ProgressSpan == 80
ProgressAlign == 95
ProgressDone == 100

\* ------------------------------------------------------------------ helpers

Min2(a, b) == IF a <= b THEN a ELSE b
Max2(a, b) == IF a >= b THEN a ELSE b
Abs(a) == IF a >= 0 THEN a ELSE 0 - a
\* math.ceil(a / b) for a >= 0, b > 0
CeilDiv(a, b) == (a + b - 1) \div b

\* The cluster ids a diarization engine gives, and the sentinel of an empty timeline.
Speakers == {"A", "B"}
Unknown == "Unknown"

\* f"Speaker {speaker_counter}"
SpeakerName(n) == "Speaker " \o ToString(n)

\* format_timestamp: the fields of "MM:SS", or of "HH:MM:SS" when hours > 0.
format_timestamp(seconds) ==
    LET hours == seconds \div 3600
        minutes == (seconds % 3600) \div 60
        secs == seconds % 60
    IN IF hours > 0 THEN <<hours, minutes, secs>> ELSE <<minutes, secs>>

\* ------------------------------------------------------------- chunk planner

RECURSIVE PlanLoop(_, _, _, _, _)
\* The planning loop: `for i, entry in enumerate(timeline)`, at turn k
\* (1-based), with the loop's chunk_start_time, current_chunk_turns and
\* natural_chunks.
PlanLoop(tl, k, chunk_start_time, current_chunk_turns, chunks) ==
    IF k > Len(tl) THEN chunks
    ELSE LET entry == tl[k]
             turns == Append(current_chunk_turns, entry)
             elapsed == entry.end - chunk_start_time
             is_last == (k = Len(tl))
         IN IF elapsed >= ChunkSeconds \/ is_last
            THEN LET closed == Append(chunks, [start |-> chunk_start_time,
                                               end |-> entry.end,
                                               turns |-> turns])
                 IN IF ~is_last
                    THEN PlanLoop(tl, k + 1, tl[k + 1].start, <<>>, closed)
                    ELSE PlanLoop(tl, k + 1, chunk_start_time, turns, closed)
            ELSE PlanLoop(tl, k + 1, chunk_start_time, turns, chunks)

\* A planner that closes a chunk after every turn.
PlanTimelineEveryTurn(tl) ==
    [k \in 1..Len(tl) |-> [start |-> tl[k].start, end |-> tl[k].end,
                           turns |-> <<tl[k]>>]]

\* A planner of fixed windows over the span of the timeline, whatever the
\* turns.
PlanTimelineWindows(tl) ==
    IF tl = <<>> THEN <<>>
    ELSE LET first == tl[1].start
             span == tl[Len(tl)].end - first
         IN [k \in 1..Max2(1, CeilDiv(span, ChunkSeconds)) |->
                [start |-> first + (k - 1) * ChunkSeconds,
                 end |-> Min2(first + k * ChunkSeconds, tl[Len(tl)].end),
                 turns |-> <<>>]]

\* natural_chunks of a non-empty timeline (empty for an empty one).
PlanTimeline(tl) ==
    IF tl = <<>> THEN <<>> ELSE PlanLoop(tl, 1, tl[1].start, <<>>, <<>>)

\* Fixed windows, one at the least.
FallbackChunksAtLeastOne(duration) ==
    [k \in 1..Max2(1, CeilDiv(duration, ChunkSeconds)) |->
        [start |-> (k - 1) * ChunkSeconds,
         end |-> Min2(k * ChunkSeconds, duration)]]

\* The fallback when no chunk was planned: fixed windows over [0, duration].
FallbackChunks(duration) ==
    [k \in 1..CeilDiv(duration, ChunkSeconds) |->
        [start |-> (k - 1) * ChunkSeconds,
         end |-> Min2(k * ChunkSeconds, duration)]]

\* ------------------------------------------------- word-speaker attribution

RECURSIVE OverlapLoopLast(_, _, _, _, _, _)
\* The loop with `overlap >= best_overlap`: on a tie the last turn wins.
OverlapLoopLast(tl, k, word_start, word_end, best_overlap, best_speaker) ==
    IF k > Len(tl) THEN best_speaker
    ELSE LET overlap_start == Max2(word_start, tl[k].start)
             overlap_end == Min2(word_end, tl[k].end)
             overlap == overlap_end - overlap_start
         IN IF overlap_end > overlap_start /\ overlap >= best_overlap
            THEN OverlapLoopLast(tl, k + 1, word_start, word_end, overlap, tl[k].speaker)
            ELSE OverlapLoopLast(tl, k + 1, word_start, word_end, best_overlap, best_speaker)

RECURSIVE OverlapLoop(_, _, _, _, _, _)
\* `for entry in timeline`: the speaker of the turn of largest positive
\* overlap, the first such turn on a tie; "" (None) when no turn overlaps.
OverlapLoop(tl, k, word_start, word_end, best_overlap, best_speaker) ==
    IF k > Len(tl) THEN best_speaker
    ELSE LET overlap_start == Max2(word_start, tl[k].start)
             overlap_end == Min2(word_end, tl[k].end)
             overlap == overlap_end - overlap_start
         IN IF overlap_end > overlap_start /\ overlap > best_overlap
            THEN OverlapLoop(tl, k + 1, word_start, word_end, overlap, tl[k].speaker)
            ELSE OverlapLoop(tl, k + 1, word_start, word_end, best_overlap, best_speaker)

\* The key of the nearest-turn fallback, doubled:
\* 2 * min(abs(s["start"] - mid), abs(s["end"] - mid)), mid = (ws + we) / 2.
EdgeDistance2(s, word_start, word_end) ==
    Min2(Abs(2 * s.start - (word_start + word_end)),
         Abs(2 * s.end - (word_start + word_end)))

RECURSIVE NearestLoop(_, _, _, _, _)
\* Python's min(timeline, key=...): the first element of least key.
NearestLoop(tl, k, word_start, word_end, best) ==
    IF k > Len(tl) THEN best
    ELSE IF EdgeDistance2(tl[k], word_start, word_end)
              < EdgeDistance2(tl[best], word_start, word_end)
         THEN NearestLoop(tl, k + 1, word_start, word_end, k)
         ELSE NearestLoop(tl, k + 1, word_start, word_end, best)

RECURSIVE NearestLoopLast(_, _, _, _, _)
\* A min that keeps the last element of least key.
NearestLoopLast(tl, k, word_start, word_end, best) ==
    IF k > Len(tl) THEN best
    ELSE IF EdgeDistance2(tl[k], word_start, word_end)
              <= EdgeDistance2(tl[best], word_start, word_end)
         THEN NearestLoopLast(tl, k + 1, word_start, word_end, k)
         ELSE NearestLoopLast(tl, k + 1, word_start, word_end, best)

\* The fallback of get_speaker_for_word with a min that prefers the later turn.
NearestTurnLast(tl, word_start, word_end) ==
    NearestLoopLast(tl, 2, word_start, word_end, 1)

\* `nearest = min(timeline, key=...)`, as an index of the timeline.
NearestTurn(tl, word_start, word_end) ==
    NearestLoop(tl, 2, word_start, word_end, 1)

get_speaker_for_word(tl, word_start, word_end) ==
    IF tl = <<>> THEN Unknown
    ELSE LET best_speaker == OverlapLoop(tl, 1, word_start, word_end, 0, "")
         IN IF best_speaker # "" THEN best_speaker
            ELSE tl[NearestTurn(tl, word_start, word_end)].speaker

\* ------------------------------------------------------ hallucination filter
\* A text is a sequence of words; the words of the model stand for the
\* Russian words of the patterns, written in Latin letters:
\*   "Korrektor" (the marker word of patterns 2 and 7), "Redaktor" and
\*   "subtitrov" (patterns 1 and 6), "privet" and "Ivanov" (words of three
\*   letters or more), "da" (a word of two letters), "A." (an initial),
\*   "Zdravstvujte." (a word with a full stop), "." (a full stop alone),
\*   and the words of the four phrases of pattern 8.
\* re.sub replaces a match by '', which leaves the spaces on both of its
\* sides: the word "" stands for that removed stretch, so that a later
\* pattern with a literal space does not match across it and \s+ does.
\* Patterns 3 to 5 need a colon after their keyword; no word of the model
\* has one, so they match nothing here.

Words3 == {"Korrektor", "Redaktor", "subtitrov", "privet", "Ivanov",
           "Vse", "prava", "zashchishcheny", "Prodolzhenie", "sleduet",
           "Stavte", "lajki", "Podpisyvajtes", "kanal"}
Words2 == {"da", "na"}
Initials == {"A."}
\* A word of three letters or more with a full stop after it: a name may
\* end in its letters, and then the full stop is left in the text.
WordsDot == {"Zdravstvujte."}

\* The first word at or after p that is not a removed stretch; Len + 1 if none.
RECURSIVE NextTok(_, _)
NextTok(toks, p) ==
    IF p > Len(toks) THEN Len(toks) + 1
    ELSE IF toks[p] # "" THEN p ELSE NextTok(toks, p + 1)

\* ([A-Z]\.?\s*){1,2}[A-Z][a-z]+ under IGNORECASE, matched from word q on:
\* the index of the last word it takes, 0 when it does not match.
NameEnd(toks, q) ==
    LET q2 == NextTok(toks, q + 1)
        q3 == NextTok(toks, q2 + 1)
        word(x) == x <= Len(toks) /\ toks[x] \in Words2 \cup Words3 \cup WordsDot
    IN IF q > Len(toks) THEN 0
       ELSE IF toks[q] \in Words3 \cup WordsDot THEN q
       ELSE IF toks[q] \in Words2 THEN (IF word(q2) THEN q2 ELSE 0)
       ELSE IF toks[q] \in Initials
            THEN IF word(q2) THEN q2
                 ELSE IF q2 <= Len(toks) /\ toks[q2] \in Initials /\ word(q3)
                      THEN q3 ELSE 0
       ELSE 0

\* Whether the words of kw stand at p, one space apart.
PhraseAt(toks, p, kw) ==
    /\ p + Len(kw) - 1 <= Len(toks)
    /\ \A j \in 1..Len(kw) : toks[p + j - 1] = kw[j]

RECURSIVE SubKeywordName(_, _, _)
\* re.sub(r'\bKW\s+NAME', '', text): leftmost matches, left to right.
SubKeywordName(toks, p, kw) ==
    IF p > Len(toks) THEN <<>>
    ELSE LET e == IF PhraseAt(toks, p, kw)
                  THEN NameEnd(toks, NextTok(toks, p + Len(kw)))
                  ELSE 0
         IN IF e > 0
            THEN (IF toks[e] \in WordsDot THEN <<"", ".">> ELSE <<"">>)
                     \o SubKeywordName(toks, e + 1, kw)
            ELSE <<toks[p]>> \o SubKeywordName(toks, p + 1, kw)

RECURSIVE SubPhrase(_, _, _)
\* re.sub(r'\bKW\b', '', text)
SubPhrase(toks, p, kw) ==
    IF p > Len(toks) THEN <<>>
    ELSE IF PhraseAt(toks, p, kw)
         THEN <<"">> \o SubPhrase(toks, p + Len(kw), kw)
         ELSE <<toks[p]>> \o SubPhrase(toks, p + 1, kw)

RECURSIVE SubPhrases(_, _, _)
\* re.sub(r'\b(K1|K2|...)\b', '', text): at each place the first alternative
\* that matches.
SubPhrases(toks, p, kws) ==
    IF p > Len(toks) THEN <<>>
    ELSE LET hit == {j \in 1..Len(kws) : PhraseAt(toks, p, kws[j])}
         IN IF hit # {}
            THEN LET j == CHOOSE x \in hit : \A y \in hit : x <= y
                 IN <<"">> \o SubPhrases(toks, p + Len(kws[j]), kws)
            ELSE <<toks[p]>> \o SubPhrases(toks, p + 1, kws)

\* re.sub(r'\s+', ' ', cleaned) and .strip(): the words that are left.
CollapseSpaces(toks) == SelectSeq(toks, LAMBDA t : t # "")

\* The filter with the bare keywords only (patterns 6, 7 and 8).
clean_keywords_only(text) ==
    LET p6 == SubPhrase(text, 1, <<"Redaktor", "subtitrov">>)
        p7 == SubPhrase(p6, 1, <<"Korrektor">>)
        p8 == SubPhrases(p7, 1, << <<"Vse", "prava", "zashchishcheny">>,
                                   <<"Prodolzhenie", "sleduet">>,
                                   <<"Stavte", "lajki">>,
                                   <<"Podpisyvajtes", "na", "kanal">> >>)
    IN CollapseSpaces(p8)

clean_hallucinations(text) ==
    LET p1 == SubKeywordName(text, 1, <<"Redaktor", "subtitrov">>)
        p2 == SubKeywordName(p1, 1, <<"Korrektor">>)
        \* patterns 3, 4, 5: no word with a colon
        p6 == SubPhrase(p2, 1, <<"Redaktor", "subtitrov">>)
        p7 == SubPhrase(p6, 1, <<"Korrektor">>)
        p8 == SubPhrases(p7, 1, << <<"Vse", "prava", "zashchishcheny">>,
                                   <<"Prodolzhenie", "sleduet">>,
                                   <<"Stavte", "lajki">>,
                                   <<"Podpisyvajtes", "na", "kanal">> >>)
    IN CollapseSpaces(p8)

\* --------------------------------------------------------- segment assembler

\* The flush of the accumulated words of one speaker: names the speaker if
\* it has no name yet, filters the text, appends a segment unless the
\* filtered text is empty.  st is [segments, speaker_map, speaker_counter].
FlushRun(st, cur_raw, cur_start, cur_words) ==
    LET known == cur_raw \in DOMAIN st.speaker_map
        counter == IF known THEN st.speaker_counter ELSE st.speaker_counter + 1
        map == IF known THEN st.speaker_map
               ELSE st.speaker_map @@ (cur_raw :> SpeakerName(counter))
        text == clean_hallucinations(cur_words)
    IN [segments |-> IF text # <<>>
                     THEN Append(st.segments,
                                 [start |-> cur_start,
                                  timestamp |-> format_timestamp(cur_start),
                                  text |-> text,
                                  speaker |-> map[cur_raw]])
                     ELSE st.segments,
        speaker_map |-> map,
        speaker_counter |-> counter]

RECURSIVE GroupLoop(_, _, _, _, _, _)
\* `for sw in speaker_words[1:]`, then the flush of the last run.
GroupLoop(words, k, cur_raw, cur_start, cur_words, st) ==
    IF k > Len(words) THEN FlushRun(st, cur_raw, cur_start, cur_words)
    ELSE IF words[k].speaker_raw = cur_raw
         THEN GroupLoop(words, k + 1, cur_raw, cur_start,
                        Append(cur_words, words[k].word), st)
         ELSE GroupLoop(words, k + 1, words[k].speaker_raw, words[k].start,
                        <<words[k].word>>,
                        FlushRun(st, cur_raw, cur_start, cur_words))

\* The grouping of consecutive same-speaker words into segments.
GroupWords(words, speaker_map, speaker_counter) ==
    LET st == [segments |-> <<>>, speaker_map |-> speaker_map,
               speaker_counter |-> speaker_counter]
    IN IF words = <<>> THEN st
       ELSE GroupLoop(words, 2, words[1].speaker_raw, words[1].start,
                      <<words[1].word>>, st)

RECURSIVE MergeLoop(_, _, _)
MergeLoop(segments, k, merged) ==
    IF k > Len(segments) THEN merged
    ELSE IF merged # <<>> /\ segments[k].speaker = merged[Len(merged)].speaker
         THEN MergeLoop(segments, k + 1,
                        [merged EXCEPT ![Len(merged)].text = @ \o segments[k].text])
         ELSE MergeLoop(segments, k + 1, Append(merged, segments[k]))

\* "Merge adjacent same-speaker segments"
MergeAdjacent(segments) == MergeLoop(segments, 1, <<>>)

\* self_group_words: the merged segments and the speaker_map it leaves behind
\* (the dict is changed in place; speaker_counter is an int, passed by value,
\* so the caller's counter is not changed).
self_group_words(speaker_words, speaker_map, speaker_counter) ==
    LET g == GroupWords(speaker_words, speaker_map, speaker_counter)
    IN [segments |-> MergeAdjacent(g.segments), speaker_map |-> g.speaker_map]

\* ------------------------------------------- handler.py: interjection rescue

\* seg.get("speaker", "Unknown")
SpeakerOf(seg) == IF "speaker" \in DOMAIN seg THEN seg.speaker ELSE Unknown

RECURSIVE RescueLoopAbsorb(_, _, _, _)
\* A loop that gives a short segment between two segments of one other
\* speaker to that speaker.
RescueLoopAbsorb(segments, max_duration, i, rescued) ==
    IF i > Len(segments) THEN rescued
    ELSE LET seg == segments[i]
             between == /\ seg.end - seg.start <= max_duration
                        /\ i > 1 /\ i < Len(segments)
                        /\ SpeakerOf(segments[i - 1]) = SpeakerOf(segments[i + 1])
                        /\ SpeakerOf(seg) # SpeakerOf(segments[i - 1])
         IN RescueLoopAbsorb(segments, max_duration, i + 1,
                Append(rescued,
                       IF between
                       THEN [start |-> seg.start, end |-> seg.end,
                             speaker |-> SpeakerOf(segments[i - 1])]
                       ELSE seg))

RECURSIVE RescueLoop(_, _, _, _)
\* `for i, seg in enumerate(segments)` (i is 1-based here): None stands for
\* the missing neighbour of the first and of the last segment.
RescueLoop(segments, max_duration, i, rescued) ==
    IF i > Len(segments) THEN rescued
    ELSE LET seg == segments[i]
             seg_duration == seg.end - seg.start
             speaker == SpeakerOf(seg)
             prev_speaker == IF i > 1 THEN SpeakerOf(segments[i - 1]) ELSE "None"
             next_speaker == IF i < Len(segments) THEN SpeakerOf(segments[i + 1])
                             ELSE "None"
             both == prev_speaker # "None" /\ next_speaker # "None"
         IN IF seg_duration <= max_duration
            THEN IF both /\ prev_speaker = next_speaker /\ speaker # prev_speaker
                 THEN RescueLoop(segments, max_duration, i + 1, Append(rescued, seg))
                 ELSE IF both /\ speaker = prev_speaker /\ speaker # next_speaker
                 THEN RescueLoop(segments, max_duration, i + 1, Append(rescued, seg))
                 ELSE RescueLoop(segments, max_duration, i + 1, Append(rescued, seg))
            ELSE RescueLoop(segments, max_duration, i + 1, Append(rescued, seg))

\* The pass with the absorbing loop.
rescue_absorbing(segments, max_duration) ==
    IF Len(segments) < 3 THEN segments
    ELSE RescueLoopAbsorb(segments, max_duration, 1, <<>>)

rescue_short_interjections(segments, max_duration) ==
    IF Len(segments) < 3 THEN segments
    ELSE RescueLoop(segments, max_duration, 1, <<>>)

\* ---------------------------------------------- handler.py: turn smoothing

\* df.sort_values(by="start"): the rows in an order of non-decreasing start.
\* The sort is not stable, so rows of equal start may come in any order.
SortsByStart(df) ==
    {[k \in 1..Len(df) |-> df[perm[k]]] :
        perm \in {f \in [1..Len(df) -> 1..Len(df)] :
                     /\ \A a, b \in 1..Len(df) : a # b => f[a] # f[b]
                     /\ \A a \in 1..(Len(df) - 1) : df[f[a]].start <= df[f[a + 1]].start}}

RECURSIVE SmoothLoop(_, _, _, _)
\* `for i in range(1, len(df))` (i is 1-based here): a row of the current
\* speaker moves the end of the current row to its own end.
SmoothLoop(df, i, current_row, merged_rows) ==
    IF i > Len(df) THEN Append(merged_rows, current_row)
    ELSE LET next_row == df[i]
         IN IF next_row.speaker = current_row.speaker
            THEN SmoothLoop(df, i + 1, [current_row EXCEPT !.end = next_row.end],
                            merged_rows)
            ELSE SmoothLoop(df, i + 1, next_row, Append(merged_rows, current_row))

\* smooth_diarization on rows that have been sorted.
SmoothSorted(df) == SmoothLoop(df, 2, df[1], <<>>)

\* ------------------------------------------------------------------- state


VARIABLES
    timeline,           \* transcriptions[task_id]["timeline"]
    audio,              \* the words spoken in the recording (absolute times)
    pc,                 \* the position of the worker thread
    status,             \* transcriptions[task_id]["status"]
    progress,           \* transcriptions[task_id]["progress"]
    result,             \* transcriptions[task_id]["result"]
    error,              \* transcriptions[task_id]["error"] ("" when not set)
    natural_chunks,     \* the planned chunks
    chunk_index,        \* the loop variable i of the chunk loop, 1-based
    all_speaker_words,  \* the attributed words retained so far
    speaker_map,        \* cluster id -> display name
    speaker_counter,
    word_start,         \* the arguments and the result of one call of
    word_end,           \* get_speaker_for_word
    attributed,
    text,               \* the argument of clean_hallucinations,
    cleaned,            \* its result,
    recleaned,          \* and the result of filtering that result again
    duration,           \* what get_duration measured (-1: not measured)
    seen,               \* what the last GET /status returned
    transcriptions,     \* the task registry: task id -> record
    cache,              \* the files cache/<stem>_diarize.json, each with the
                        \* uploaded file (`of`) its timeline was made for
    transcript_file,    \* the files uploads/<stem>.json
    diarization_pipeline,   \* whether the diarization pipeline was loaded
    job,                    \* the remote job of a cloud request and its poller
    call,                   \* the last call of a function or endpoint: its
                            \* arguments and what it returned
    engine_runs,            \* per uploaded file, the calls of diarization_pipeline(...)
    model_lock,         \* the worker that holds model_lock, 0 when free
    workers,            \* the worker threads
    requests            \* the number of requests served

vars == <<timeline, audio, pc, status, progress, result, error, natural_chunks,
          chunk_index, all_speaker_words, speaker_map, speaker_counter,
          word_start, word_end, attributed, text, cleaned, recleaned,
          duration, seen, transcriptions, cache, transcript_file,
          diarization_pipeline, engine_runs, model_lock, workers, requests,
          job, call>>

taskVars == <<status, progress, result, error>>
runVars == <<natural_chunks, chunk_index, all_speaker_words, speaker_map,
             speaker_counter>>
attrVars == <<word_start, word_end, attributed>>
filterVars == <<text, cleaned, recleaned>>
callVars == <<job, call>>
serverVars == <<transcriptions, cache, transcript_file, diarization_pipeline,
                engine_runs, model_lock, workers, requests, callVars>>
\* the variables outside one transcription run
restVars == <<filterVars, serverVars, seen, duration>>

\* ------------------------------------------------------------------ inputs

Turn(s, e, sp) == [start |-> s, end |-> e, speaker |-> sp]
Word(w, s, e) == [word |-> w, start |-> s, end |-> e]

\* Whether a timeline is ordered by start time, as the diarization engine
\* gives it.
OrderedByStart(tl) == \A k \in 1..(Len(tl) - 1) : tl[k].start <= tl[k + 1].start

\* The end of the k-th of a row of contiguous turns: 30, 40, 50, ...
TurnEnd(k) == IF k = 0 THEN 0 ELSE 30 + 10 * (k - 1)

\* n contiguous turns with the speakers sp.
ContiguousTimeline(n, sp) ==
    [k \in 1..n |-> Turn(TurnEnd(k - 1), TurnEnd(k), sp[k])]

\* Two turns, the second starting shift seconds after the end of the first
\* (a gap), at it, or before it (overlapped speech).
BoundaryTimeline(shift, sp) ==
    <<Turn(0, 30, sp[1]), Turn(30 + shift, 40, sp[2])>>

\* The words the transcription engine gives in the model.
WordTokens == {"Korrektor", "da"}

\* The recording that has, at each place of positions, the word c gives it
\* ("" for none).
AudioAt(positions, c) ==
    LET all == [k \in 1..Len(positions) |->
                    Word(c[k], positions[k][1], positions[k][2])]
    IN SelectSeq(all, LAMBDA w : w.word # "")

\* One place inside each of n contiguous turns.
SlotPositions(n) == [k \in 1..n |-> <<TurnEnd(k - 1) + 6, TurnEnd(k - 1) + 8>>]

\* Places before, around and after the boundary of the two turns of a
\* BoundaryTimeline: the midpoints are 11, 27, 30, 32 and 37.
BoundaryPositions == <<<<10, 12>>, <<26, 28>>, <<29, 31>>, <<31, 33>>, <<36, 38>>>>

Audios(positions) ==
    {AudioAt(positions, c) : c \in [1..Len(positions) -> WordTokens \cup {""}]}

PipelineInputs ==
    UNION {
        {[timeline |-> ContiguousTimeline(n, sp), audio |-> a] :
            sp \in [1..n -> Speakers],
            a \in Audios(SlotPositions(IF n = 0 THEN 2 ELSE n))} :
        n \in 0..MaxTurns}
    \cup
    {[timeline |-> BoundaryTimeline(shift, sp), audio |-> a] :
        shift \in {-5, 0, 5}, sp \in [1..2 -> Speakers],
        a \in {x \in Audios(BoundaryPositions) : Len(x) <= MaxBoundaryWords}}

\* The lengths get_duration may measure when there is no timeline.
Durations == {0, 20, 30, 50, 70}

\* The timelines handed to the planner alone: up to MaxPlanTurns turns with
\* their bounds among PlanTimes, ordered by start, gaps and overlaps allowed.
PlanTimes == {0, 10, 30, 40, 41, 90}
PlanTurns == {<<s, e>> \in PlanTimes \X PlanTimes : s < e}
PlanSpeaker(k) == IF k % 2 = 1 THEN "A" ELSE "B"
PlanTimelines ==
    UNION {
        {tl \in {[k \in 1..n |-> Turn(b[k][1], b[k][2], PlanSpeaker(k))] :
                    b \in [1..n -> PlanTurns]} : OrderedByStart(tl)} :
        n \in 0..MaxPlanTurns}

\* The timelines and the word intervals handed to get_speaker_for_word alone.
AttrTimes == {0, 10, 20, 30}
AttrTurns == {Turn(s, e, sp) : s \in AttrTimes, e \in AttrTimes, sp \in Speakers}
AttrTimelines ==
    UNION {
        {tl \in [1..n -> {t \in AttrTurns : t.start < t.end}] : OrderedByStart(tl)} :
        n \in 0..MaxAttrTurns}
AttrWordTimes == {8, 12, 14, 15, 16, 25, 35}

\* The texts handed to clean_hallucinations alone: up to MaxTextLen words.
FilterWords == {"Zdravstvujte.", "Redaktor", "subtitrov", "A.", "Ivanov",
                "Korrektor", "Prodolzhenie", "sleduet"}
FilterTexts == UNION {[1..n -> FilterWords] : n \in 0..MaxTextLen}

\* The tasks of the server (task_id is the name of the uploaded file) and
\* the stems of their files.
Tasks == {"a.wav", "a.mp3", "b.wav"}
Stem(t) == IF t = "b.wav" THEN "b" ELSE "a"
Stems == {Stem(t) : t \in Tasks}
Workers == 1..MaxWorkers

\* What the diarization engine gives for a recording, and a timeline that
\* is imported.
EngineTimeline == <<Turn(0, 30, "A"), Turn(30, 40, "B")>>
ImportedTimeline == <<Turn(0, 40, "A")>>

\* The values min(99, int((step_artifact.end / duration) * 100)) takes in
\* the hook of the diarization engine.
HookProgress == {40, 99}

\* The lengths get_duration measures for the recordings of the server.
ServerDurations == {0, 30}

\* A result list: the words of the first `chunks` chunks as grouped by the
\* worker `by`, or the final grouping; by = 0 is a list that was imported
\* and chunks = 0 the empty list.
ResultOf(by, chunks, final) == [by |-> by, chunks |-> chunks, final |-> final]
NoResult == ResultOf(0, 0, FALSE)
ImportedResult == ResultOf(0, 1, TRUE)

\* transcriptions.get(task_id, {"status": "not_found"})
NoTask == [status |-> "not_found", progress |-> 0, timeline |-> <<>>,
           result |-> NoResult, error |-> ""]

NoFile == [exists |-> FALSE, timeline |-> <<>>, of |-> ""]
FileOf(tl, t) == [exists |-> TRUE, timeline |-> tl, of |-> t]

\* A thread that has not been started.
IdleWorker == [kind |-> "none", task |-> "", pc |-> "idle", timeline |-> <<>>,
               cached |-> NoFile, hit |-> FALSE, i |-> 0, n |-> 0]

\* -------------------------------------------------------------- initial state

\* The task after upload_file (no cached diarization: "uploaded") or after a
\* diarization ("diarization_complete"), a transcription worker just started.
TaskInit ==
    /\ status = IF timeline = <<>> THEN "uploaded" ELSE "diarization_complete"
    /\ progress = IF timeline = <<>> THEN 0 ELSE ProgressDone
    /\ result = <<>>
    /\ error = ""

RunInit ==
    /\ natural_chunks = <<>>
    /\ chunk_index = 0
    /\ all_speaker_words = <<>>
    /\ speaker_map = <<>>
    /\ speaker_counter = 0
    /\ duration = -1

NoAttr ==
    /\ word_start = 0
    /\ word_end = 0
    /\ attributed = ""

NoFilter ==
    /\ text = <<>>
    /\ cleaned = <<>>
    /\ recleaned = <<>>

\* The server after start-up: no task, no file, no thread.
ServerInit ==
    /\ transcriptions = [t \in Tasks |-> NoTask]
    /\ cache = [s \in Stems |-> NoFile]
    /\ transcript_file = [s \in Stems |-> FALSE]
    /\ model_lock = 0
    /\ engine_runs = [t \in Tasks |-> 0]
    /\ workers = [w \in Workers |-> IdleWorker]
    /\ requests = 0

\* No cloud job, no call made yet.
NoJob == [kind |-> "none", remote |-> "none", pc |-> "idle", polls |-> 0,
          reported |-> "", writes |-> 0]
NoCall == [fn |-> "none"]
NoCalls ==
    /\ job = NoJob
    /\ call = NoCall

NoServer ==
    /\ ServerInit
    /\ NoCalls
    /\ diarization_pipeline = TRUE
    /\ seen = NoTask

Init ==
    /\ \E inp \in PipelineInputs :
          /\ timeline = inp.timeline
          /\ audio = inp.audio
    /\ pc = "start"
    /\ TaskInit
    /\ RunInit
    /\ NoAttr
    /\ NoFilter
    /\ NoServer

InitPlan ==
    /\ timeline \in PlanTimelines
    /\ audio = <<>>
    /\ pc = "start"
    /\ TaskInit
    /\ RunInit
    /\ NoAttr
    /\ NoFilter
    /\ NoServer

InitAttr ==
    /\ timeline \in AttrTimelines
    /\ audio = <<>>
    /\ pc = "attribute"
    /\ TaskInit
    /\ RunInit
    /\ word_start \in AttrWordTimes
    /\ word_end \in {e \in AttrWordTimes : word_start <= e}
    /\ attributed = ""
    /\ NoFilter
    /\ NoServer

InitFilter ==
    /\ timeline = <<>>
    /\ audio = <<>>
    /\ pc = "filter"
    /\ TaskInit
    /\ RunInit
    /\ NoAttr
    /\ text \in FilterTexts
    /\ cleaned = <<>>
    /\ recleaned = <<>>
    /\ NoServer

\* A task just uploaded on a server whose diarization pipeline failed to
\* load; POST /diarize has started its worker.
InitNoDiarization ==
    /\ timeline = <<>>
    /\ audio \in Audios(SlotPositions(2))
    /\ pc = "diarize_start"
    /\ TaskInit
    /\ RunInit
    /\ NoAttr
    /\ NoFilter
    /\ ServerInit
    /\ NoCalls
    /\ diarization_pipeline = FALSE
    /\ seen = NoTask

\* The recordings of the runs a status reader watches.
ReaderInputs ==
    {[timeline |-> tl, audio |-> a] :
        tl \in {<<>>, ContiguousTimeline(2, <<"A", "B">>)},
        a \in Audios(SlotPositions(2))}

\* The recordings of a run whose words are the parts of a credit line
\* ("Redaktor subtitrov") and a plain word, over no timeline or two turns.
LiveTokens == {"Redaktor", "subtitrov", "da"}
LiveInputs ==
    {[timeline |-> tl, audio |-> AudioAt(SlotPositions(2), c)] :
        tl \in {<<>>, ContiguousTimeline(2, <<"A", "A">>),
                ContiguousTimeline(2, <<"A", "B">>)},
        c \in [1..2 -> LiveTokens \cup {""}]}

InitLive ==
    /\ \E inp \in LiveInputs :
          /\ timeline = inp.timeline
          /\ audio = inp.audio
    /\ pc = "start"
    /\ TaskInit
    /\ RunInit
    /\ NoAttr
    /\ NoFilter
    /\ NoServer

\* The result lists POST /update_speaker is applied to: up to MaxSegments
\* segments of two speakers, and the requests made.
RenameNames == {SpeakerName(1), SpeakerName(2)}
RenameResults ==
    UNION {
        {[k \in 1..n |-> [start |-> 10 * (k - 1),
                          timestamp |-> format_timestamp(10 * (k - 1)),
                          text |-> <<"da">>,
                          speaker |-> sp[k]]] : sp \in [1..n -> RenameNames]} :
        n \in 0..MaxSegments}
RenameIndexes == (0 - 1)..MaxSegments
NewNames == {"Doctor", SpeakerName(2)}

\* The segment lists given to rescue_short_interjections: up to MaxSegments
\* contiguous segments of 1 or 3 seconds, of speaker A or B or with no
\* speaker key, and the values of max_duration.
RescueShapes == {[len |-> d, speaker |-> sp] : d \in {1, 3}, sp \in Speakers \cup {""}}
RECURSIVE RescueStart(_, _)
RescueStart(shapes, k) == IF k = 1 THEN 0 ELSE RescueStart(shapes, k - 1) + shapes[k - 1].len
RescueSegment(shapes, k) ==
    LET s == RescueStart(shapes, k)
    IN IF shapes[k].speaker = ""
       THEN [start |-> s, end |-> s + shapes[k].len]
       ELSE [start |-> s, end |-> s + shapes[k].len, speaker |-> shapes[k].speaker]
RescueInputs ==
    UNION {{[k \in 1..n |-> RescueSegment(shapes, k)] : shapes \in [1..n -> RescueShapes]} :
           n \in 0..MaxSegments}
MaxDurations == {0, 2, 3}

\* What a completed remote job gives: output["result"] as formatted by the
\* poller, and output["timeline"].
CloudResult ==
    <<[start |-> 0, end |-> 2, timestamp |-> format_timestamp(0),
       speaker |-> Unknown, text |-> <<"da">>]>>
CloudTimeline == EngineTimeline

\* The statuses of a remote job that end the polling.
RemoteFinal == {"COMPLETED", "FAILED", "CANCELLED"}

\* POST /diarize-cloud or /transcribe-cloud has started the remote job and
\* the thread of poll_job.
InitPoll ==
    /\ audio = <<>>
    /\ pc = "cloud"
    /\ \E kind \in {"diarize", "transcribe"} :
          /\ job = [kind |-> kind, remote |-> "IN_QUEUE", pc |-> "poll", polls |-> 0,
                    reported |-> "", writes |-> 0]
          /\ status = IF kind = "diarize" THEN "diarizing" ELSE "transcribing"
          /\ timeline \in IF kind = "diarize" THEN {<<>>} ELSE {<<>>, CloudTimeline}
    /\ progress = ProgressStart
    /\ result = <<>>
    /\ error = ""
    /\ RunInit
    /\ NoAttr
    /\ NoFilter
    /\ ServerInit
    /\ diarization_pipeline = TRUE
    /\ seen = NoTask
    /\ call = NoCall

\* The state of a function that is called alone.
CallInit ==
    /\ timeline = <<>>
    /\ audio = <<>>
    /\ TaskInit
    /\ RunInit
    /\ NoAttr
    /\ NoFilter
    /\ ServerInit
    /\ diarization_pipeline = TRUE
    /\ seen = NoTask
    /\ job = NoJob

\* The turns given to smooth_diarization: up to MaxSegments rows, in any
\* order, with bounds among SmoothTimes.
SmoothTimes == {0, 5, 10, 30}
SmoothRows == {Turn(s, e, sp) : s \in SmoothTimes, e \in SmoothTimes, sp \in Speakers}
SmoothInputs ==
    UNION {[1..n -> {r \in SmoothRows : r.start < r.end}] : n \in 0..MaxSegments}

InitSmooth ==
    /\ pc = "smooth"
    /\ CallInit
    /\ \E df \in SmoothInputs :
          call = [fn |-> "smooth_diarization", df |-> df, returned |-> <<>>]

InitRescue ==
    /\ pc = "rescue"
    /\ CallInit
    /\ \E segments \in RescueInputs, max_duration \in MaxDurations :
          call = [fn |-> "rescue_short_interjections", segments |-> segments,
                  max_duration |-> max_duration, returned |-> <<>>]

\* A completed task with a result, no request made yet.
InitRename ==
    /\ timeline = <<>>
    /\ audio = <<>>
    /\ pc = "rename"
    /\ status = "completed"
    /\ progress = ProgressDone
    /\ result \in RenameResults
    /\ error = ""
    /\ RunInit
    /\ NoAttr
    /\ NoFilter
    /\ NoServer

InitReader ==
    /\ \E inp \in ReaderInputs :
          /\ timeline = inp.timeline
          /\ audio = inp.audio
    /\ pc = "start"
    /\ TaskInit
    /\ RunInit
    /\ NoAttr
    /\ NoFilter
    /\ NoServer

InitServer ==
    /\ timeline = <<>>
    /\ audio = <<>>
    /\ pc = "server"
    /\ TaskInit
    /\ RunInit
    /\ NoAttr
    /\ NoFilter
    /\ ServerInit
    /\ NoCalls
    /\ diarization_pipeline \in BOOLEAN
    /\ seen = NoTask

\* ------------------------------------------------------ transcription engine

\* The padded window of chunk k: start_time and end_time.
StartTime(chunk) == Max2(0, chunk.start - Pad)
EndTime(chunk) == chunk.end + Pad

\* What an engine hears in the window [start_time, end_time]: the words of
\* the recording that lie in it, in order, with chunk-local timestamps.
Transcribe(start_time, end_time) ==
    LET heard == SelectSeq(audio, LAMBDA w : w.start >= start_time /\ w.end <= end_time)
    IN [k \in 1..Len(heard) |->
            Word(heard[k].word, heard[k].start - start_time, heard[k].end - start_time)]

\* `actual_start <= midpoint <= actual_end`, midpoint = (abs_start + abs_end) / 2.0
MidpointInside(chunk, abs_start, abs_end) ==
    /\ 2 * chunk.start <= abs_start + abs_end
    /\ abs_start + abs_end <= 2 * chunk.end

RECURSIVE RetainLoop(_, _, _, _)
\* `for w in words`: the words of the engine's output are moved to absolute
\* time, kept if their midpoint is inside the chunk, and attributed.
RetainLoop(chunk, words, k, kept) ==
    IF k > Len(words) THEN kept
    ELSE LET abs_start == words[k].start + StartTime(chunk)
             abs_end == words[k].end + StartTime(chunk)
         IN IF MidpointInside(chunk, abs_start, abs_end)
            THEN RetainLoop(chunk, words, k + 1,
                     Append(kept, [word |-> words[k].word,
                                   start |-> abs_start,
                                   end |-> abs_end,
                                   speaker_raw |->
                                       get_speaker_for_word(timeline, abs_start, abs_end)]))
            ELSE RetainLoop(chunk, words, k + 1, kept)

\* -------------------------------------------------------------------- actions

Chunk == natural_chunks[chunk_index]

\* `except Exception as e` of the worker: the task ends in status error.
Fail(message) ==
    /\ status' = "error"
    /\ error' = message
    /\ pc' = "done"
    /\ UNCHANGED <<progress, result>>

\* run_transcribe_task, lines 316-320.
BeginTranscribe ==
    /\ pc = "start"
    /\ status' = "transcribing"
    /\ progress' = ProgressStart
    /\ pc' = "plan"
    /\ UNCHANGED <<timeline, audio, result, error, runVars, attrVars, restVars>>

Planned(chunks) ==
    /\ natural_chunks' = chunks
    /\ speaker_map' = <<>>
    /\ speaker_counter' = 0
    /\ all_speaker_words' = <<>>
    /\ chunk_index' = 1
    /\ pc' = IF chunks = <<>> THEN "align" ELSE "chunk"
    /\ UNCHANGED <<timeline, audio, taskVars, attrVars, filterVars, serverVars, seen>>

\* lines 324-348 and 363-365: the chunks of a non-empty timeline.
PlanFromTimeline ==
    /\ pc = "plan"
    /\ timeline # <<>>
    /\ Planned(PlanTimeline(timeline))
    /\ UNCHANGED duration

\* lines 350-353: no timeline, fixed windows over the measured duration.
PlanFallback ==
    /\ pc = "plan"
    /\ PlanTimeline(timeline) = <<>>
    /\ \E d \in Durations :
          /\ duration' = d
          /\ Planned(FallbackChunks(d))

\* get_duration raises (ffprobe printed no number).
PlanRaises ==
    /\ pc = "plan"
    /\ PlanTimeline(timeline) = <<>>
    /\ Fail("duration")
    /\ UNCHANGED <<timeline, audio, runVars, attrVars, restVars>>

\* `continue`: the next chunk, or the end of the loop.
NextChunk ==
    /\ chunk_index' = chunk_index + 1
    /\ pc' = IF chunk_index = Len(natural_chunks) THEN "align" ELSE "chunk"

\* lines 377-378 and 389-390: the window is empty, or ffmpeg wrote no chunk
\* file; the chunk is passed over.
SkipChunk ==
    /\ pc = "chunk"
    /\ NextChunk
    /\ UNCHANGED <<timeline, audio, taskVars, natural_chunks, all_speaker_words,
                   speaker_map, speaker_counter, attrVars, restVars>>

\* The words of an engine's output are retained (lines 413-438, 467-492).
Retain ==
    /\ all_speaker_words' = all_speaker_words \o
           RetainLoop(Chunk, Transcribe(StartTime(Chunk), EndTime(Chunk)), 1, <<>>)
    /\ pc' = "progress"
    /\ UNCHANGED <<timeline, audio, taskVars, natural_chunks, chunk_index,
                   speaker_map, speaker_counter, attrVars, restVars>>

Stay(next) ==
    /\ pc' = next
    /\ UNCHANGED <<timeline, audio, taskVars, runVars, attrVars, restVars>>

\* lines 400-438: the primary engine returns.
PrimaryReturns ==
    /\ pc = "chunk"
    /\ EndTime(Chunk) - StartTime(Chunk) > 0
    /\ Retain

\* The failure of the primary engine answered at full precision at once.
PrimaryRaisesLibraryFull ==
    /\ pc = "chunk"
    /\ EndTime(Chunk) - StartTime(Chunk) > 0
    /\ Stay("fallback_fp32")

\* lines 439-441: the primary engine raises a cublas/cudnn failure.
PrimaryRaisesLibrary ==
    /\ pc = "chunk"
    /\ EndTime(Chunk) - StartTime(Chunk) > 0
    /\ Stay("fallback_fp16")

\* lines 493-494: the primary engine raises anything else; the chunk is skipped.
PrimaryRaisesOther ==
    /\ pc = "chunk"
    /\ EndTime(Chunk) - StartTime(Chunk) > 0
    /\ Stay("progress")

\* lines 442-446: `import whisper` or whisper.load_model raises inside the
\* except clause; nothing catches it before the worker's own handler.
FallbackLoadRaises ==
    /\ pc = "fallback_fp16"
    /\ Fail("fallback load")
    /\ UNCHANGED <<timeline, audio, runVars, attrVars, restVars>>

\* lines 448-458: the fallback engine returns at reduced precision.
Fp16Returns ==
    /\ pc = "fallback_fp16"
    /\ Retain

\* lines 459-460: it raises; full precision is tried.
Fp16Raises ==
    /\ pc = "fallback_fp16"
    /\ Stay("fallback_fp32")

\* lines 461-465: the fallback engine returns at full precision.
Fp32Returns ==
    /\ pc = "fallback_fp32"
    /\ Retain

\* The full-precision call raises inside the except clause of the chunk: the
\* exception leaves the chunk loop and reaches the worker's handler (595-600).
Fp32Raises ==
    /\ pc = "fallback_fp32"
    /\ Fail("fallback")
    /\ UNCHANGED <<timeline, audio, runVars, attrVars, restVars>>

\* The progress counted from the chunks before the current one (i, not i + 1).
PublishProgressBefore ==
    /\ pc = "progress"
    /\ progress' = ProgressStart +
                       ((chunk_index - 1) * ProgressSpan) \div Len(natural_chunks)
    /\ pc' = "live"
    /\ UNCHANGED <<timeline, audio, status, result, error, runVars, attrVars, restVars>>

\* line 500: progress after chunk i (0-based i = chunk_index - 1).
PublishProgress ==
    /\ pc = "progress"
    /\ progress' = ProgressStart + (chunk_index * ProgressSpan) \div Len(natural_chunks)
    /\ pc' = "live"
    /\ UNCHANGED <<timeline, audio, status, result, error, runVars, attrVars, restVars>>

\* lines 503-506: the live result.
PublishLive ==
    /\ pc = "live"
    /\ LET live == self_group_words(all_speaker_words, speaker_map, speaker_counter)
       IN /\ speaker_map' = live.speaker_map
          /\ IF live.segments # <<>>
             THEN /\ speaker_counter' =
                        Max2(speaker_counter, Cardinality(DOMAIN live.speaker_map))
                  /\ result' = live.segments
             ELSE UNCHANGED <<speaker_counter, result>>
    /\ NextChunk
    /\ UNCHANGED <<timeline, audio, status, progress, error, natural_chunks,
                   all_speaker_words, attrVars, restVars>>

\* lines 514-515.
BeginAlign ==
    /\ pc = "align"
    /\ status' = "aligning"
    /\ progress' = ProgressAlign
    /\ pc' = "group"
    /\ UNCHANGED <<timeline, audio, result, error, runVars, attrVars, restVars>>

\* lines 519-571: final grouping and smoothing.
FinalGroup ==
    /\ pc = "group"
    /\ LET g == GroupWords(all_speaker_words, speaker_map, speaker_counter)
       IN /\ speaker_map' = g.speaker_map
          /\ speaker_counter' = g.speaker_counter
          /\ result' = MergeAdjacent(g.segments)
    /\ pc' = "save"
    /\ UNCHANGED <<timeline, audio, status, progress, error, natural_chunks,
                   chunk_index, all_speaker_words, attrVars, restVars>>

\* lines 574-591: the files are written, the task is completed.
Complete ==
    /\ pc = "save"
    /\ status' = "completed"
    /\ progress' = ProgressDone
    /\ pc' = "done"
    /\ UNCHANGED <<timeline, audio, result, error, runVars, attrVars, restVars>>

\* Writing the .md or the .docx raises.
SaveRaises ==
    /\ pc = "save"
    /\ Fail("save")
    /\ UNCHANGED <<timeline, audio, runVars, attrVars, restVars>>

\* One call of get_speaker_for_word.
Attribute ==
    /\ pc = "attribute"
    /\ attributed' = get_speaker_for_word(timeline, word_start, word_end)
    /\ pc' = "attributed"
    /\ UNCHANGED <<timeline, audio, taskVars, runVars, word_start, word_end,
                   restVars>>

\* One call of clean_hallucinations.
Filter ==
    /\ pc = "filter"
    /\ cleaned' = clean_hallucinations(text)
    /\ pc' = "filtered"
    /\ UNCHANGED <<timeline, audio, taskVars, runVars, attrVars, text, recleaned,
                   serverVars, seen, duration>>

\* A second call, on the result of the first.
FilterAgain ==
    /\ pc = "filtered"
    /\ recleaned' = clean_hallucinations(cleaned)
    /\ pc' = "refiltered"
    /\ UNCHANGED <<timeline, audio, taskVars, runVars, attrVars, text, cleaned,
                   serverVars, seen, duration>>

\* run_diarize_task, lines 297-298.
DiarizeTaskBegin ==
    /\ pc = "diarize_start"
    /\ status' = "diarizing"
    /\ progress' = 0
    /\ pc' = "diarize"
    /\ UNCHANGED <<timeline, audio, result, error, runVars, attrVars, restVars>>

\* A diarization step that treats the missing pipeline as an error.
DiarizationUnavailableFails ==
    /\ pc = "diarize"
    /\ ~diarization_pipeline
    /\ Fail("no diarization")
    /\ UNCHANGED <<timeline, audio, runVars, attrVars, restVars>>

\* run_diarization returns [] because the pipeline is not loaded (97-98);
\* run_diarize_task stores it (302-304).  POST /transcribe follows.
DiarizationUnavailable ==
    /\ pc = "diarize"
    /\ ~diarization_pipeline
    /\ timeline' = <<>>
    /\ status' = "diarization_complete"
    /\ progress' = ProgressDone
    /\ pc' = "start"
    /\ UNCHANGED <<audio, result, error, runVars, attrVars, restVars>>

\* The rename of the indexed segment alone.
RenameIndexedOnly(res, segment_index, speaker_name) ==
    [res EXCEPT ![segment_index + 1].speaker = speaker_name]

\* lines 738-744: every segment that has the speaker of the indexed segment
\* (0-based) gets the new name.
RenameSpeaker(res, segment_index, speaker_name) ==
    LET old_name == res[segment_index + 1].speaker
    IN [k \in 1..Len(res) |->
           IF res[k].speaker = old_name
           THEN [res[k] EXCEPT !.speaker = speaker_name]
           ELSE res[k]]

\* POST /update_speaker. known: task_id is in transcriptions. With a valid
\* index the segments are renamed and the files regenerated, which may
\* raise; otherwise the error response.
update_speaker ==
    /\ pc = "rename"
    /\ \E known \in BOOLEAN, segment_index \in RenameIndexes, speaker_name \in NewNames :
          LET req == [fn |-> "update_speaker", known |-> known,
                      segment_index |-> segment_index, speaker_name |-> speaker_name]
          IN IF known /\ 0 <= segment_index /\ segment_index < Len(result)
             THEN /\ result' = RenameSpeaker(result, segment_index, speaker_name)
                  /\ \E returned \in {"success", "raised"} :
                        call' = req @@ [returned |-> returned]
             ELSE /\ result' = result
                  /\ call' = req @@ [returned |-> "error"]
    /\ UNCHANGED <<timeline, audio, pc, status, progress, error, runVars, attrVars,
                   filterVars, seen, duration, transcriptions, cache, transcript_file,
                   diarization_pipeline, engine_runs, model_lock, workers, requests,
                   job>>

\* What a function that is called alone leaves as it is.
CallFrame ==
    UNCHANGED <<timeline, audio, taskVars, runVars, attrVars, filterVars, seen,
                duration, transcriptions, cache, transcript_file,
                diarization_pipeline, engine_runs, model_lock, workers, requests, job>>

\* One call of rescue_short_interjections.
Rescue ==
    /\ pc = "rescue"
    /\ call' = [call EXCEPT !.returned =
                    rescue_short_interjections(call.segments, call.max_duration)]
    /\ pc' = "rescued"
    /\ CallFrame

\* One call of smooth_diarization: an empty frame is returned as it is, the
\* others are sorted and merged.
smooth_diarization ==
    /\ pc = "smooth"
    /\ IF call.df = <<>>
       THEN call' = [call EXCEPT !.returned = call.df]
       ELSE \E df \in SortsByStart(call.df) :
               call' = [call EXCEPT !.returned = SmoothSorted(df)]
    /\ pc' = "smoothed"
    /\ CallFrame

\* ---- src/server.py: poll_job of diarize_cloud and of transcribe_cloud

\* What the poller leaves as it is.
PollFrame ==
    UNCHANGED <<audio, pc, runVars, attrVars, filterVars, seen, duration,
                transcriptions, cache, transcript_file, diarization_pipeline,
                engine_runs, model_lock, workers, requests, call>>

\* The remote job moves on: queued, running, then completed, failed or
\* cancelled.
RemoteAdvances ==
    /\ job.kind # "none"
    /\ \/ job.remote = "IN_QUEUE" /\ job' = [job EXCEPT !.remote = "IN_PROGRESS"]
       \/ /\ job.remote = "IN_PROGRESS"
          /\ \E r \in RemoteFinal : job' = [job EXCEPT !.remote = r]
    /\ UNCHANGED <<timeline, taskVars>>
    /\ PollFrame

\* One GET of the job's status has been answered with the status rep ("" when
\* the request or the parsing of its answer raised).
Polled(rep, next) ==
    /\ job.pc = "poll"
    /\ job.polls < MaxPolls
    /\ job' = [job EXCEPT !.polls = @ + 1, !.reported = rep, !.pc = next]

\* lines 281-283 raise, or data["output"] raises (line 286/388): `except`,
\* sleep, poll again.
PollRaises ==
    /\ Polled("", "poll")
    /\ UNCHANGED <<timeline, taskVars>>
    /\ PollFrame

\* lines 307-314 (412-419): the job is queued or running.
PollWaiting ==
    /\ job.remote \in {"IN_QUEUE", "IN_PROGRESS"}
    /\ Polled(job.remote, "poll")
    /\ status' = IF job.kind = "diarize" THEN "diarizing" ELSE "transcribing"
    /\ progress' = IF job.remote = "IN_PROGRESS" THEN 50 ELSE 20
    /\ UNCHANGED <<timeline, result, error>>
    /\ PollFrame

\* lines 300-305 (405-410): the job failed or was cancelled.
PollFailed ==
    /\ job.remote \in {"FAILED", "CANCELLED"}
    /\ Polled(job.remote, "ended")
    /\ status' = "error"
    /\ error' = "Job failed"
    /\ UNCHANGED <<timeline, progress, result>>
    /\ PollFrame

\* lines 285-289 (387-399): the job is completed, its output is stored.
PollStoresOutput ==
    /\ job.remote = "COMPLETED"
    /\ job.pc = "poll"
    /\ job.polls < MaxPolls
    /\ job' = [job EXCEPT !.polls = @ + 1, !.reported = "COMPLETED",
                          !.pc = "stored", !.writes = @ + 1]
    /\ IF job.kind = "diarize"
       THEN timeline' = CloudTimeline /\ UNCHANGED result
       ELSE result' = CloudResult /\ UNCHANGED timeline
    /\ UNCHANGED <<status, progress, error>>
    /\ PollFrame

\* lines 290-291 (400-401): the status of the task is set.
PollSetsStatus ==
    /\ job.pc = "stored"
    /\ job' = [job EXCEPT !.pc = "files"]
    /\ status' = IF job.kind = "diarize" THEN "diarization_complete" ELSE "completed"
    /\ progress' = ProgressDone
    /\ UNCHANGED <<timeline, result, error>>
    /\ PollFrame

\* lines 294-299 (402-404): the files are written, `break`.
PollFilesWritten ==
    /\ job.pc = "files"
    /\ job' = [job EXCEPT !.pc = "ended"]
    /\ UNCHANGED <<timeline, taskVars>>
    /\ PollFrame

\* Writing the files raises (open, json.dump, regenerate_files): the
\* `except` of the loop catches it, sleeps, and the loop polls again.
PollFilesRaise ==
    /\ job.pc = "files"
    /\ job' = [job EXCEPT !.pc = "poll"]
    /\ UNCHANGED <<timeline, taskVars>>
    /\ PollFrame

\* GET /status/{task_id}: the record as it is at the moment of the request.
get_status ==
    /\ pc # "done"
    /\ seen' = [status |-> status, progress |-> progress, timeline |-> timeline,
                result |-> result, error |-> error]
    /\ UNCHANGED <<timeline, audio, pc, taskVars, runVars, attrVars, filterVars,
                   serverVars, duration>>

\* --------------------------------------------------------------- the server
\* The variables of one transcription run, of one attribution and of one
\* filtering: the server's actions leave them alone.
detailVars == <<timeline, audio, pc, taskVars, runVars, attrVars, filterVars,
                seen, duration, callVars>>

Served == requests < MaxRequests /\ requests' = requests + 1

\* The record of task t with the fields of upd written over it.
Written(t, upd) ==
    [transcriptions EXCEPT ![t] =
        [f \in DOMAIN @ |-> IF f \in DOMAIN upd THEN upd[f] ELSE @[f]]]

\* upload_file: the record is made anew; a saved transcription or a cached
\* diarization of the same stem is picked up.
upload_file(t) ==
    /\ Served
    /\ transcriptions' = [transcriptions EXCEPT ![t] =
          IF transcript_file[Stem(t)]
          THEN [status |-> "completed", progress |-> ProgressDone,
                timeline |-> <<>>, result |-> ImportedResult, error |-> ""]
          ELSE IF cache[Stem(t)].exists
          THEN [status |-> "diarization_complete", progress |-> ProgressDone,
                timeline |-> cache[Stem(t)].timeline, result |-> NoResult,
                error |-> ""]
          ELSE [status |-> "uploaded", progress |-> 0, timeline |-> <<>>,
                result |-> NoResult, error |-> ""]]
    /\ UNCHANGED <<cache, transcript_file, diarization_pipeline, engine_runs, model_lock,
                   workers, detailVars>>

import_diarization(t) ==
    /\ transcriptions[t].status # "not_found"
    /\ Served
    /\ cache' = [cache EXCEPT ![Stem(t)] = FileOf(ImportedTimeline, t)]
    /\ transcriptions' = Written(t, [status |-> "diarization_complete",
                                     progress |-> ProgressDone,
                                     timeline |-> ImportedTimeline])
    /\ UNCHANGED <<transcript_file, diarization_pipeline, engine_runs, model_lock, workers,
                   detailVars>>

import_transcription(t) ==
    /\ transcriptions[t].status # "not_found"
    /\ Served
    /\ transcriptions' = Written(t, [status |-> "completed",
                                     progress |-> ProgressDone,
                                     result |-> ImportedResult])
    /\ transcript_file' = [transcript_file EXCEPT ![Stem(t)] = TRUE]
    /\ UNCHANGED <<cache, diarization_pipeline, engine_runs, model_lock, workers, detailVars>>

\* threading.Thread(target=..., args=(file_path, task_id)).start(): the
\* first thread not yet running takes the task.
Started(t, kind, at) ==
    /\ transcriptions[t].status # "not_found"
    /\ Served
    /\ \E w \in Workers :
          /\ workers[w].kind = "none"
          /\ \A v \in Workers : v < w => workers[v].kind # "none"
          /\ workers' = [workers EXCEPT ![w] =
                            [IdleWorker EXCEPT !.kind = kind, !.task = t, !.pc = at]]
    /\ UNCHANGED <<transcriptions, cache, transcript_file, diarization_pipeline, engine_runs,
                   model_lock, detailVars>>

start_diarization(t) == Started(t, "diarize", "d_begin")

start_transcription(t) == Started(t, "transcribe", "t_begin")

\* The worker w is at `at`.
At(w, at) == workers[w].pc = at

Goes(w, next) == workers' = [workers EXCEPT ![w].pc = next]

\* The thread ends.
Ends(w) == workers' = [workers EXCEPT ![w] = IdleWorker]

\* An exception handler that also empties the timeline and the result.
RecordErrorReset(t, message) ==
    Written(t, [status |-> "error", error |-> message, timeline |-> <<>>,
                result |-> NoResult])

\* The record after `except Exception as e` of a worker.
RecordError(t, message) == Written(t, [status |-> "error", error |-> message])

\* A worker's exception handler; the lock, if the worker holds it, has been
\* released by the `with` statement.
WorkerFails(w, message) ==
    /\ transcriptions' = RecordError(workers[w].task, message)
    /\ model_lock' = IF model_lock = w THEN 0 ELSE model_lock
    /\ Ends(w)
    /\ UNCHANGED <<cache, transcript_file, diarization_pipeline, engine_runs, requests,
                   detailVars>>

\* An entry that does not wait for the lock.
AcquiresAtOnce(w, next) ==
    /\ model_lock' = w
    /\ Goes(w, next)
    /\ UNCHANGED <<transcriptions, cache, transcript_file, diarization_pipeline,
                   requests, detailVars>>

\* `with model_lock:` entered.
Acquires(w, next) ==
    /\ model_lock = 0
    /\ model_lock' = w
    /\ Goes(w, next)
    /\ UNCHANGED <<transcriptions, cache, transcript_file, diarization_pipeline,
                   requests, detailVars>>

\* A `with model_lock:` that is left with the lock still held.
ReleasesNot(w, next) ==
    /\ Goes(w, next)
    /\ UNCHANGED <<transcriptions, cache, transcript_file, diarization_pipeline, engine_runs,
                   model_lock, requests, detailVars>>

\* `with model_lock:` left without an exception.
Releases(w, next) ==
    /\ model_lock' = 0
    /\ Goes(w, next)
    /\ UNCHANGED <<transcriptions, cache, transcript_file, diarization_pipeline, engine_runs,
                   requests, detailVars>>

\* A step of a worker that writes fields of its task's record.
Writes(w, upd, next) ==
    /\ transcriptions' = Written(workers[w].task, upd)
    /\ IF next = "end" THEN Ends(w) ELSE Goes(w, next)
    /\ UNCHANGED <<cache, transcript_file, diarization_pipeline, engine_runs, model_lock,
                   requests, detailVars>>

\* ---- run_diarize_task and run_diarization

DiarizeBegin(w) ==
    /\ At(w, "d_begin")
    /\ Writes(w, [status |-> "diarizing", progress |-> 0], "d_call")

\* The call of run_diarization up to its first return or to the engine; the
\* worker remembers the cache file it found at the call.
Called(w, tl, next) ==
    /\ At(w, "d_call")
    /\ workers' = [workers EXCEPT ![w].pc = next, ![w].timeline = tl,
                                  ![w].cached = cache[Stem(workers[w].task)],
                                  ![w].hit = cache[Stem(workers[w].task)].exists]
    /\ UNCHANGED <<transcriptions, cache, transcript_file, diarization_pipeline, engine_runs,
                   model_lock, requests, detailVars>>

\* `if not diarization_pipeline: return []`
DiarizeNoPipeline(w) ==
    /\ ~diarization_pipeline
    /\ Called(w, <<>>, "d_write")

\* `if cache_file.exists(): return json.load(f)`
DiarizeCacheHit(w) ==
    /\ diarization_pipeline
    /\ cache[Stem(workers[w].task)].exists
    /\ Called(w, cache[Stem(workers[w].task)].timeline, "d_write")

DiarizeCacheMiss(w) ==
    /\ diarization_pipeline
    /\ ~cache[Stem(workers[w].task)].exists
    /\ Called(w, <<>>, "d_prepare")

\* get_duration or sf.read raises.
DiarizePrepareRaises(w) ==
    /\ At(w, "d_prepare")
    /\ WorkerFails(w, "prepare")

\* lines 144-145: `with model_lock:` entered, the engine is called.
DiarizeAcquire(w) ==
    /\ At(w, "d_prepare")
    /\ Acquires(w, "d_engine")
    /\ engine_runs' = [engine_runs EXCEPT ![workers[w].task] = @ + 1]

\* The hook of the engine: `if p > progress: progress = p`.
DiarizeHook(w) ==
    /\ At(w, "d_engine")
    /\ \E p \in HookProgress :
          /\ p > transcriptions[workers[w].task].progress
          /\ Writes(w, [progress |-> p], "d_engine")

DiarizeEngineReturns(w) ==
    /\ At(w, "d_engine")
    /\ model_lock' = 0
    /\ workers' = [workers EXCEPT ![w].pc = "d_cache", ![w].timeline = EngineTimeline]
    /\ UNCHANGED <<transcriptions, cache, transcript_file, diarization_pipeline, engine_runs,
                   requests, detailVars>>

DiarizeEngineRaises(w) ==
    /\ At(w, "d_engine")
    /\ WorkerFails(w, "diarization")

\* "Save to cache"
DiarizeSaveCache(w) ==
    /\ At(w, "d_cache")
    /\ cache' = [cache EXCEPT ![Stem(workers[w].task)] = FileOf(workers[w].timeline,
                                                             workers[w].task)]
    /\ Goes(w, "d_write")
    /\ UNCHANGED <<transcriptions, transcript_file, diarization_pipeline, engine_runs,
                   model_lock, requests, detailVars>>

\* run_diarize_task, lines 302-304.
DiarizeDone(w) ==
    /\ At(w, "d_write")
    /\ Writes(w, [timeline |-> workers[w].timeline,
                  status |-> "diarization_complete",
                  progress |-> ProgressDone], "end")

\* ---- run_transcribe_task

\* lines 316-320: the timeline is read, the phase begins.
TranscribeBegin(w) ==
    /\ At(w, "t_begin")
    /\ transcriptions' = Written(workers[w].task,
                                 [status |-> "transcribing", progress |-> ProgressStart])
    /\ workers' = [workers EXCEPT ![w].pc = "t_plan",
                       ![w].timeline = transcriptions[workers[w].task].timeline]
    /\ UNCHANGED <<cache, transcript_file, diarization_pipeline, engine_runs, model_lock,
                   requests, detailVars>>

\* The chunks are planned: n of them.
PlannedCount(w, n) ==
    /\ workers' = [workers EXCEPT ![w].pc = IF n = 0 THEN "t_align" ELSE "t_chunk",
                                  ![w].i = 1, ![w].n = n]
    /\ UNCHANGED <<transcriptions, cache, transcript_file, diarization_pipeline, engine_runs,
                   model_lock, requests, detailVars>>

TranscribePlan(w) ==
    /\ At(w, "t_plan")
    /\ workers[w].timeline # <<>>
    /\ PlannedCount(w, Len(PlanTimeline(workers[w].timeline)))

TranscribePlanFallback(w) ==
    /\ At(w, "t_plan")
    /\ workers[w].timeline = <<>>
    /\ \E d \in ServerDurations : PlannedCount(w, Len(FallbackChunks(d)))

TranscribePlanRaises(w) ==
    /\ At(w, "t_plan")
    /\ workers[w].timeline = <<>>
    /\ WorkerFails(w, "duration")

\* The place after chunk i: the next chunk or the end of the loop.
AfterChunk(w) == IF workers[w].i = workers[w].n THEN "t_align" ELSE "t_chunk"

\* `continue` (no chunk file).
TranscribeSkip(w) ==
    /\ At(w, "t_chunk")
    /\ workers' = [workers EXCEPT ![w].pc = AfterChunk(w), ![w].i = @ + 1]
    /\ UNCHANGED <<transcriptions, cache, transcript_file, diarization_pipeline, engine_runs,
                   model_lock, requests, detailVars>>

\* The three `with model_lock:` of the chunk loop (lines 401, 449, 461).
TranscribeAcquire(w) ==
    /\ \/ At(w, "t_chunk") /\ Acquires(w, "t_primary")
       \/ At(w, "t_fp16_wait") /\ Acquires(w, "t_fp16")
       \/ At(w, "t_fp32_wait") /\ Acquires(w, "t_fp32")
    /\ UNCHANGED engine_runs

\* An engine returns; its words are retained outside the lock.
TranscribeEngineReturns(w) ==
    /\ workers[w].pc \in {"t_primary", "t_fp16", "t_fp32"}
    /\ Releases(w, "t_progress")

\* The primary engine raises a cublas/cudnn failure.
TranscribePrimaryRaisesLibrary(w) ==
    /\ At(w, "t_primary")
    /\ Releases(w, "t_fp16_wait")

\* It raises anything else: the chunk is skipped, progress is written.
TranscribePrimaryRaisesOther(w) ==
    /\ At(w, "t_primary")
    /\ Releases(w, "t_progress")

\* whisper.load_model raises.
TranscribeFallbackLoadRaises(w) ==
    /\ At(w, "t_fp16_wait")
    /\ WorkerFails(w, "fallback load")

TranscribeFp16Raises(w) ==
    /\ At(w, "t_fp16")
    /\ Releases(w, "t_fp32_wait")

TranscribeFp32Raises(w) ==
    /\ At(w, "t_fp32")
    /\ WorkerFails(w, "fallback")

\* line 500
TranscribeProgress(w) ==
    /\ At(w, "t_progress")
    /\ Writes(w, [progress |-> ProgressStart
                      + (workers[w].i * ProgressSpan) \div workers[w].n], "t_live")

\* lines 503-506: the live result is written unless it is empty.
TranscribeLive(w) ==
    /\ At(w, "t_live")
    /\ \E written \in BOOLEAN :
          transcriptions' =
              IF written
              THEN Written(workers[w].task, [result |-> ResultOf(w, workers[w].i, FALSE)])
              ELSE transcriptions
    /\ workers' = [workers EXCEPT ![w].pc = AfterChunk(w), ![w].i = @ + 1]
    /\ UNCHANGED <<cache, transcript_file, diarization_pipeline, engine_runs, model_lock,
                   requests, detailVars>>

\* lines 514-515
TranscribeAlign(w) ==
    /\ At(w, "t_align")
    /\ Writes(w, [status |-> "aligning", progress |-> ProgressAlign], "t_final")

\* line 571
TranscribeFinal(w) ==
    /\ At(w, "t_final")
    /\ Writes(w, [result |-> ResultOf(w, workers[w].n, TRUE)], "t_save")

\* lines 574-591
TranscribeComplete(w) ==
    /\ At(w, "t_save")
    /\ Writes(w, [status |-> "completed", progress |-> ProgressDone], "end")

TranscribeSaveRaises(w) ==
    /\ At(w, "t_save")
    /\ WorkerFails(w, "save")

\* ------------------------------------------------------------ specifications

Next ==
    \/ BeginTranscribe
    \/ PlanFromTimeline
    \/ PlanFallback
    \/ PlanRaises
    \/ SkipChunk
    \/ PrimaryReturns
    \/ PrimaryRaisesLibrary
    \/ PrimaryRaisesOther
    \/ FallbackLoadRaises
    \/ Fp16Returns
    \/ Fp16Raises
    \/ Fp32Returns
    \/ Fp32Raises
    \/ PublishProgress
    \/ PublishLive
    \/ BeginAlign
    \/ FinalGroup
    \/ Complete
    \/ SaveRaises

\* One transcription run of one task.
Spec == Init /\ [][Next]_vars

NextPlan ==
    \/ BeginTranscribe
    \/ PlanFromTimeline
    \/ PlanFallback
    \/ PlanRaises

\* The planner alone: the run up to the planned chunks.
SpecPlan == InitPlan /\ [][NextPlan]_vars

NextAttr == Attribute

\* get_speaker_for_word alone.
SpecAttr == InitAttr /\ [][NextAttr]_vars

NextFilter ==
    \/ Filter
    \/ FilterAgain

\* clean_hallucinations alone, applied once and then to its own result.
SpecFilter == InitFilter /\ [][NextFilter]_vars

NextNoDiarization ==
    \/ DiarizeTaskBegin
    \/ DiarizationUnavailable
    \/ BeginTranscribe
    \/ PlanFallback
    \/ PlanRaises
    \/ SkipChunk
    \/ PrimaryReturns
    \/ PrimaryRaisesLibrary
    \/ PrimaryRaisesOther
    \/ FallbackLoadRaises
    \/ Fp16Returns
    \/ Fp16Raises
    \/ Fp32Returns
    \/ Fp32Raises
    \/ PublishProgress
    \/ PublishLive
    \/ BeginAlign
    \/ FinalGroup
    \/ Complete
    \/ SaveRaises

\* The diarization and the transcription of one task on a server without a
\* diarization pipeline.
SpecNoDiarization == InitNoDiarization /\ [][NextNoDiarization]_vars

NextReader ==
    \/ Next
    \/ get_status

\* One transcription run with a client that polls the status of the task.
SpecReader == InitReader /\ [][NextReader]_vars

\* One transcription run over recordings that hold a credit line.
SpecLive == InitLive /\ [][Next]_vars

NextRescue == Rescue

\* rescue_short_interjections alone.
SpecRescue == InitRescue /\ [][NextRescue]_vars

NextPoll ==
    \/ RemoteAdvances
    \/ PollRaises
    \/ PollWaiting
    \/ PollFailed
    \/ PollStoresOutput
    \/ PollSetsStatus
    \/ PollFilesWritten
    \/ PollFilesRaise

\* A remote job and its poller.
SpecPoll == InitPoll /\ [][NextPoll]_vars

NextSmooth == smooth_diarization

\* smooth_diarization alone.
SpecSmooth == InitSmooth /\ [][NextSmooth]_vars

NextRename == update_speaker

\* Requests to rename speakers of a completed task.
SpecRename == InitRename /\ [][NextRename]_vars

NextServer ==
    \/ \E t \in Tasks : upload_file(t)
    \/ \E t \in Tasks : import_diarization(t)
    \/ \E t \in Tasks : import_transcription(t)
    \/ \E t \in Tasks : start_diarization(t)
    \/ \E t \in Tasks : start_transcription(t)
    \/ \E w \in Workers : DiarizeBegin(w)
    \/ \E w \in Workers : DiarizeNoPipeline(w)
    \/ \E w \in Workers : DiarizeCacheHit(w)
    \/ \E w \in Workers : DiarizeCacheMiss(w)
    \/ \E w \in Workers : DiarizePrepareRaises(w)
    \/ \E w \in Workers : DiarizeAcquire(w)
    \/ \E w \in Workers : DiarizeHook(w)
    \/ \E w \in Workers : DiarizeEngineReturns(w)
    \/ \E w \in Workers : DiarizeEngineRaises(w)
    \/ \E w \in Workers : DiarizeSaveCache(w)
    \/ \E w \in Workers : DiarizeDone(w)
    \/ \E w \in Workers : TranscribeBegin(w)
    \/ \E w \in Workers : TranscribePlan(w)
    \/ \E w \in Workers : TranscribePlanFallback(w)
    \/ \E w \in Workers : TranscribePlanRaises(w)
    \/ \E w \in Workers : TranscribeSkip(w)
    \/ \E w \in Workers : TranscribeAcquire(w)
    \/ \E w \in Workers : TranscribeEngineReturns(w)
    \/ \E w \in Workers : TranscribePrimaryRaisesLibrary(w)
    \/ \E w \in Workers : TranscribePrimaryRaisesOther(w)
    \/ \E w \in Workers : TranscribeFallbackLoadRaises(w)
    \/ \E w \in Workers : TranscribeFp16Raises(w)
    \/ \E w \in Workers : TranscribeFp32Raises(w)
    \/ \E w \in Workers : TranscribeProgress(w)
    \/ \E w \in Workers : TranscribeLive(w)
    \/ \E w \in Workers : TranscribeAlign(w)
    \/ \E w \in Workers : TranscribeFinal(w)
    \/ \E w \in Workers : TranscribeComplete(w)
    \/ \E w \in Workers : TranscribeSaveRaises(w)

\* The server: uploads, imports and worker threads over all tasks.
SpecServer == InitServer /\ [][NextServer]_vars

\* A step of thread w that does not wait: the statement it is at finishes,
\* by a return or by an exception (every engine invocation returns or
\* raises). The steps that leave a `with model_lock:` not yet entered
\* (prepare raises, `continue`, load_model raises) are not among them.
Proceeds(w) ==
    \/ DiarizeBegin(w)
    \/ DiarizeNoPipeline(w)
    \/ DiarizeCacheHit(w)
    \/ DiarizeCacheMiss(w)
    \/ DiarizeHook(w)
    \/ DiarizeEngineReturns(w)
    \/ DiarizeEngineRaises(w)
    \/ DiarizeSaveCache(w)
    \/ DiarizeDone(w)
    \/ TranscribeBegin(w)
    \/ TranscribePlan(w)
    \/ TranscribePlanFallback(w)
    \/ TranscribePlanRaises(w)
    \/ TranscribeEngineReturns(w)
    \/ TranscribePrimaryRaisesLibrary(w)
    \/ TranscribePrimaryRaisesOther(w)
    \/ TranscribeFp16Raises(w)
    \/ TranscribeFp32Raises(w)
    \/ TranscribeProgress(w)
    \/ TranscribeLive(w)
    \/ TranscribeAlign(w)
    \/ TranscribeFinal(w)
    \/ TranscribeComplete(w)
    \/ TranscribeSaveRaises(w)

\* Thread w enters a `with model_lock:`.
EntersLock(w) == DiarizeAcquire(w) \/ TranscribeAcquire(w)

\* Every thread is scheduled, and the lock is granted fairly: a thread that
\* finds the lock free again and again gets it.
FairServer ==
    \A w \in Workers : WF_vars(Proceeds(w)) /\ SF_vars(EntersLock(w))

\* The server with scheduled threads and a fair lock.
SpecServerFair == InitServer /\ [][NextServer]_vars /\ FairServer

\* ------------------------------------------------------------------- claims

\* The content boundaries (start, end) of the planned chunks.
ChunkBounds == [k \in 1..Len(natural_chunks) |->
                   <<natural_chunks[k].start, natural_chunks[k].end>>]

\* The chunks have been planned from a non-empty timeline.
PlannedFromTimeline == pc = "chunk" /\ timeline # <<>>

ScenarioTimeline == <<Turn(0, 40, "A"), Turn(40, 41, "B"), Turn(41, 90, "A")>>

\* C1, as claimed: the timeline [(0,40,A), (40,41,B), (41,90,A)] is planned
\* as the three chunks (0,40), (40,41), (41,90).
C1_ThreeChunks ==
    (PlannedFromTimeline /\ timeline = ScenarioTimeline)
        => ChunkBounds = <<<<0, 40>>, <<40, 41>>, <<41, 90>>>>

\* C1, amended: the timeline [(0,40,A), (40,41,B), (41,90,A)] is planned as
\* the two chunks (0,40) and (40,90): the turn (40,41) does not reach 30
\* seconds, so its chunk stays open until the last turn.
C1_TwoChunks ==
    (PlannedFromTimeline /\ timeline = ScenarioTimeline)
        => ChunkBounds = <<<<0, 40>>, <<40, 90>>>>

C1_Witness ==
    /\ PlannedFromTimeline
    /\ timeline = ScenarioTimeline
    /\ Len(natural_chunks) = 2

\* No turn of the timeline starts before the turn before it has ended.
NoOverlappingTurns(tl) == \A k \in 1..(Len(tl) - 1) : tl[k].end <= tl[k + 1].start

\* C2: the chunks of a non-empty timeline start at the start of the first
\* turn, end at the end of the last turn, and each chunk starts where the
\* chunk before it ends (here for timelines without overlapped speech).
C2_ExactCover ==
    (PlannedFromTimeline /\ NoOverlappingTurns(timeline)) =>
        /\ natural_chunks[1].start = timeline[1].start
        /\ natural_chunks[Len(natural_chunks)].end = timeline[Len(timeline)].end
        /\ \A k \in 1..(Len(natural_chunks) - 1) :
              natural_chunks[k + 1].start = natural_chunks[k].end

\* How many of the retained words are the word w of the recording.
TimesRetained(w) ==
    Cardinality({k \in 1..Len(all_speaker_words) :
                    /\ all_speaker_words[k].start = w.start
                    /\ all_speaker_words[k].end = w.end})

\* C3: no word of the recording is retained by more than one chunk, so it is
\* in the word list at most once (here for timelines without overlapped
\* speech, where no two chunks share more than a boundary).
C3_RetainedOnce ==
    NoOverlappingTurns(timeline) =>
        \A k \in 1..Len(audio) : TimesRetained(audio[k]) <= 1

\* The failures that are not raised by an engine call on a chunk.
NotEngineFailures == {"duration", "save", "fallback load"}

\* C4: whatever the engines raise on the chunks, the run ends with status
\* completed: a finished run whose planning, fallback loading and saving did
\* not fail is not in status error.
C4_NoChunkFailureAborts ==
    (pc = "done" /\ error \notin NotEngineFailures) => status = "completed"

\* Turn k of the timeline contains the word interval.
Contains(k) == timeline[k].start <= word_start /\ word_end <= timeline[k].end

\* No two turns of the timeline start at the same time.
DistinctStarts(tl) == \A k \in 1..(Len(tl) - 1) : tl[k].start < tl[k + 1].start

\* C5: a word interval (word_start <= word_end) that lies fully inside one
\* turn, and inside no other, is attributed to that turn's speaker (here for
\* timelines whose turns start at different times).
C5_InsideTurn ==
    (pc = "attributed" /\ DistinctStarts(timeline)) =>
        \A k \in 1..Len(timeline) :
            (Contains(k) /\ \A j \in 1..Len(timeline) : j # k => ~Contains(j))
                => attributed = timeline[k].speaker

\* Turn k overlaps the word interval.
Overlaps(k) ==
    Min2(word_end, timeline[k].end) > Max2(word_start, timeline[k].start)

\* Twice the distance from the word's midpoint to the nearer edge of turn k.
MidToEdge2(k) ==
    LET mid2 == word_start + word_end
        ds == Abs(2 * timeline[k].start - mid2)
        de == Abs(2 * timeline[k].end - mid2)
    IN IF ds <= de THEN ds ELSE de

\* C6: a word that overlaps no turn of a non-empty timeline is attributed to
\* the speaker of the turn with the edge nearest to the word's midpoint, the
\* earlier turn when two turns are equally near.
C6_NearestEdge ==
    (pc = "attributed" /\ timeline # <<>> /\ \A k \in 1..Len(timeline) : ~Overlaps(k))
        => \E k \in 1..Len(timeline) :
              /\ attributed = timeline[k].speaker
              /\ \A j \in 1..Len(timeline) : MidToEdge2(k) <= MidToEdge2(j)
              /\ \A j \in 1..(k - 1) : MidToEdge2(j) > MidToEdge2(k)

\* A word in the gap between two turns of different speakers, equally near
\* to both, has been attributed.
C6_Witness ==
    /\ pc = "attributed"
    /\ Len(timeline) = 2
    /\ ~Overlaps(1) /\ ~Overlaps(2)
    /\ timeline[1].end < word_start /\ word_end < timeline[2].start
    /\ MidToEdge2(1) = MidToEdge2(2)
    /\ timeline[1].speaker # timeline[2].speaker
    /\ attributed = timeline[1].speaker

RECURSIVE RunsLoop(_, _, _)
\* The maximal runs of consecutive same-speaker words: for each its cluster
\* id, the start of its first word and its words.
RunsLoop(words, k, runs) ==
    IF k > Len(words) THEN runs
    ELSE IF runs # <<>> /\ runs[Len(runs)].speaker_raw = words[k].speaker_raw
         THEN RunsLoop(words, k + 1,
                       [runs EXCEPT ![Len(runs)].words = Append(@, words[k].word)])
         ELSE RunsLoop(words, k + 1,
                       Append(runs, [speaker_raw |-> words[k].speaker_raw,
                                     start |-> words[k].start,
                                     words |-> <<words[k].word>>]))

Runs == RunsLoop(all_speaker_words, 1, <<>>)

\* The final transcript of the run is in the result field.
FinalResult == pc = "save" \/ (pc = "done" /\ status = "completed")

\* The text of every run is non-empty after filtering.
AllRunsHaveText == \A r \in 1..Len(Runs) : clean_hallucinations(Runs[r].words) # <<>>

\* C7: a word stream of k maximal same-speaker runs gives exactly k segments
\* (here: when no run is dropped for an empty filtered text).
C7_OneSegmentPerRun ==
    (FinalResult /\ AllRunsHaveText) => Len(result) = Len(Runs)

\* Run r is in the result as a segment of its own.
OwnSegment(r) ==
    \E s \in 1..Len(result) :
        /\ result[s].start = Runs[r].start
        /\ result[s].text = clean_hallucinations(Runs[r].words)

\* C8: two runs of a speaker separated by a run of another speaker are not
\* merged, and the run between them is in the output (here: when none of the
\* three is dropped for an empty filtered text).
C8_InterjectionKept ==
    FinalResult =>
        \A r \in 1..(Len(Runs) - 2) :
            ( /\ Runs[r].speaker_raw = Runs[r + 2].speaker_raw
              /\ Runs[r].speaker_raw # Runs[r + 1].speaker_raw
              /\ \A x \in r..(r + 2) : clean_hallucinations(Runs[x].words) # <<>> )
            => (OwnSegment(r + 1) /\ OwnSegment(r + 2))

\* C9: in every published result the segments are in non-decreasing order of
\* start.
C9_StartOrder ==
    \A s \in 1..(Len(result) - 1) : result[s].start <= result[s + 1].start

\* The cluster ids of the word stream met up to and including word k.
MetBy(k) == {all_speaker_words[j].speaker_raw : j \in 1..k}

\* Word k is the first word of its cluster id in the word stream.
FirstOfItsSpeaker(k) ==
    \A j \in 1..(k - 1) :
        all_speaker_words[j].speaker_raw # all_speaker_words[k].speaker_raw

\* C10: the k-th distinct cluster id met in the word stream is named
\* "Speaker k".
C10_FirstAppearance ==
    \A k \in 1..Len(all_speaker_words) :
        (FirstOfItsSpeaker(k) /\ all_speaker_words[k].speaker_raw \in DOMAIN speaker_map)
            => speaker_map[all_speaker_words[k].speaker_raw]
                   = SpeakerName(Cardinality(MetBy(k)))

\* "Zdravstvujte. Redaktor subtitrov A. Ivanov"
GreetingWithCredit == <<"Zdravstvujte.", "Redaktor", "subtitrov", "A.", "Ivanov">>

\* C11: clean_hallucinations applied to the greeting followed by the
\* boilerplate phrase, an initial and a surname returns the greeting alone:
\* the phrase and the name are removed as a whole and nothing but the
\* greeting is left, without a space after it.
C11_TrailingCreditRemoved ==
    (pc \in {"filtered", "refiltered"} /\ text = GreetingWithCredit)
        => cleaned = <<"Zdravstvujte.">>

C11_Witness ==
    pc = "filtered" /\ text = GreetingWithCredit /\ cleaned = <<"Zdravstvujte.">>

\* C12: clean_hallucinations is idempotent: filtering the result of a
\* filtering again gives that result, for every text.
C12_Idempotent == pc = "refiltered" => recleaned = cleaned

\* The places of a worker inside run_diarization after the cache was looked
\* up and missed, and inside an engine invocation.
PastCacheMiss == {"d_prepare", "d_engine", "d_cache"}
InEngine == {"d_engine", "t_primary", "t_fp16", "t_fp32"}

\* C13: a run_diarization that is called when the cache file of its
\* recording exists does not go on to the diarization engine and returns
\* the timeline of that file; and the diarization engine is invoked by
\* diarization workers only, never by a transcription run.
C13_CachedTimelineReturned ==
    \A w \in Workers :
        /\ workers[w].pc = "d_engine" => workers[w].kind = "diarize"
        /\ workers[w].hit =>
              /\ workers[w].pc \notin PastCacheMiss
              /\ workers[w].pc = "d_write" =>
                    workers[w].timeline = workers[w].cached.timeline

Terminal == {"completed", "error"}

\* C14: once the status of a task is completed or error, no step changes it.
C14_TerminalStatusKept ==
    [][\A t \in Tasks :
          transcriptions[t].status \in Terminal
              => transcriptions'[t].status = transcriptions[t].status]_vars

\* A worker is in a phase of task t: it has written the first progress of
\* its run and has not ended.
InPhase(t) ==
    \E w \in Workers :
        /\ workers[w].task = t
        /\ workers[w].pc \notin {"idle", "d_begin", "t_begin"}

\* A step from status st to status st2 stays within one phase: the
\* diarization (diarizing, ended by diarization_complete) or the
\* transcription (transcribing and aligning, ended by completed).
SamePhase(st, st2) ==
    \/ st = "diarizing" /\ st2 \in {"diarizing", "diarization_complete"}
    \/ st \in {"transcribing", "aligning"}
          /\ st2 \in {"transcribing", "aligning", "completed"}

\* C15: while a diarization run or a transcription run of a task is under
\* way and the task stays in that phase, the progress of the task is an
\* integer in 0..100 and no write makes it smaller.
C15_ProgressNeverDecreases ==
    [][\A t \in Tasks :
          (/\ InPhase(t)
           /\ InPhase(t)'
           /\ SamePhase(transcriptions[t].status, transcriptions'[t].status))
              => /\ transcriptions'[t].progress \in 0..ProgressDone
                 /\ transcriptions'[t].progress >= transcriptions[t].progress]_vars

\* C16: at most one worker is inside an engine invocation, and the lock is
\* held only by a worker that is inside one (it is released when the
\* invocation returns or raises).
C16_OneEngineInvocation ==
    /\ Cardinality({w \in Workers : workers[w].pc \in InEngine}) <= 1
    /\ model_lock # 0 => workers[model_lock].pc \in InEngine
    /\ \A w \in Workers : workers[w].pc \in InEngine => model_lock = w

\* One worker is inside an engine while another waits at a `with model_lock`.
C16_Witness ==
    \E w, v \in Workers :
        /\ workers[w].pc \in InEngine
        /\ workers[v].pc \in {"d_prepare", "t_chunk", "t_fp16_wait", "t_fp32_wait"}

\* C19: the step of a worker that moves a task to status error leaves the
\* timeline and the result of the task as they were.
C19_ErrorKeepsTimelineAndResult ==
    [][\A t \in Tasks :
          (transcriptions'[t].status = "error" /\ transcriptions[t].status # "error")
              => /\ transcriptions'[t].timeline = transcriptions[t].timeline
                 /\ transcriptions'[t].result = transcriptions[t].result]_vars

\* A task in status error with a timeline and a live result of the run
\* that failed.
C19_Witness ==
    \E t \in Tasks :
        /\ transcriptions[t].status = "error"
        /\ transcriptions[t].timeline # <<>>
        /\ transcriptions[t].result # NoResult

C18_EmptyRecording ==
    (timeline = <<>> /\ duration = 0)
        => /\ natural_chunks = <<>>
           /\ result = <<>>
           /\ status = "error" => error = "save"
           /\ (pc = "done" /\ error = "") => status = "completed"

C18_Witness ==
    /\ timeline = <<>>
    /\ duration = 0
    /\ pc = "done"
    /\ status = "completed"
    /\ result = <<>>

\* C20: a reader's snapshot taken during the chunk loop holds the result
\* that was published with its progress value: whenever the record shows
\* the progress of the snapshot and the worker is not between the two
\* writes of a chunk, the record's result is the result of the snapshot.
C20_ResultPairedWithProgress ==
    (/\ seen.status = "transcribing"
     /\ status = "transcribing"
     /\ seen.progress = progress
     /\ pc # "live")
        => seen.result = result

\* The worker threads that are writing to the record of task t: started on
\* it, past their first write and not ended.
Mutating(t) ==
    {w \in Workers : workers[w].task = t
                      /\ workers[w].pc \notin {"idle", "d_begin", "t_begin"}}

\* C21: at most one worker thread is mutating the state of a task at any
\* time.
C21_OneWorkerPerTask == \A t \in Tasks : Cardinality(Mutating(t)) <= 1

RECURSIVE ConcatTurns(_, _)
\* The turns lists of the chunks from k on, one after the other.
ConcatTurns(chunks, k) ==
    IF k > Len(chunks) THEN <<>> ELSE chunks[k].turns \o ConcatTurns(chunks, k + 1)

\* C22: every planned chunk starts at the start of a turn and ends at the
\* end of a turn, and the turns lists of the chunks, one after the other,
\* are the timeline: every turn is in exactly one chunk, in timeline order.
C22_TurnBoundaries ==
    PlannedFromTimeline =>
        /\ \A c \in 1..Len(natural_chunks) :
              /\ \E k \in 1..Len(timeline) : natural_chunks[c].start = timeline[k].start
              /\ \E k \in 1..Len(timeline) : natural_chunks[c].end = timeline[k].end
              /\ natural_chunks[c].turns # <<>>
              /\ natural_chunks[c].start = natural_chunks[c].turns[1].start
              /\ natural_chunks[c].end =
                    natural_chunks[c].turns[Len(natural_chunks[c].turns)].end
        /\ ConcatTurns(natural_chunks, 1) = timeline

\* Three turns planned as two chunks, one of them of two turns.
C22_Witness ==
    /\ PlannedFromTimeline
    /\ Len(timeline) = 3
    /\ Len(natural_chunks) = 2

\* C23: a chunk is closed exactly when the end of the current turn is T or
\* more after the chunk's start, or the turn is the last: within a chunk no
\* turn before its last reaches T, every chunk but the last has a content
\* duration of T or more, and a timeline of one turn is one chunk with the
\* bounds of the turn, however long the turn is.
C23_ClosedAtThreshold ==
    PlannedFromTimeline =>
        /\ \A c \in 1..Len(natural_chunks) :
              \A j \in 1..(Len(natural_chunks[c].turns) - 1) :
                  natural_chunks[c].turns[j].end - natural_chunks[c].start < ChunkSeconds
        /\ \A c \in 1..(Len(natural_chunks) - 1) :
              natural_chunks[c].end - natural_chunks[c].start >= ChunkSeconds
        /\ Len(timeline) = 1 =>
              ChunkBounds = <<<<timeline[1].start, timeline[1].end>>>>

\* A single turn longer than T, planned as one chunk.
C23_Witness ==
    /\ PlannedFromTimeline
    /\ Len(timeline) = 1
    /\ timeline[1].end - timeline[1].start > ChunkSeconds
    /\ Len(natural_chunks) = 1

\* A word whose midpoint is inside [timeline[0].start, timeline[-1].end].
MidpointInSpan(w) ==
    /\ 2 * timeline[1].start <= w.start + w.end
    /\ w.start + w.end <= 2 * timeline[Len(timeline)].end

\* C24: no word is lost to padding: every word of the recording whose
\* midpoint is inside [timeline[0].start, timeline[-1].end] has its midpoint
\* inside the content boundary of at least one planned chunk.
C24_NoWordLostToPadding ==
    PlannedFromTimeline =>
        \A k \in 1..Len(audio) :
            MidpointInSpan(audio[k]) =>
                \E c \in 1..Len(natural_chunks) :
                    MidpointInside(natural_chunks[c], audio[k].start, audio[k].end)

\* C25: the fallback engine is entered only from the primary engine's
\* failure and for the same chunk, full precision only from the failure of
\* the reduced-precision attempt on the same chunk, and whenever the loop
\* moves to another chunk it is at the primary engine again (or past the
\* loop).
C25_FallbackOrder ==
    [][/\ (pc' = "fallback_fp16" /\ pc # "fallback_fp16") =>
              (pc = "chunk" /\ chunk_index' = chunk_index)
       /\ (pc' = "fallback_fp32" /\ pc # "fallback_fp32") =>
              (pc = "fallback_fp16" /\ chunk_index' = chunk_index)
       /\ (pc \in {"fallback_fp16", "fallback_fp32"}) =>
              (pc' \in {"fallback_fp16", "fallback_fp32", "progress", "done"}
               /\ chunk_index' = chunk_index)
       /\ chunk_index' # chunk_index => pc' \in {"chunk", "align"}]_vars

\* The second chunk at the full-precision attempt, the first chunk's words
\* retained.
C25_Witness ==
    /\ pc = "fallback_fp32"
    /\ chunk_index = 2
    /\ all_speaker_words # <<>>

\* The overlap of the word with the k-th turn (positive when they overlap).
OverlapWith(k) ==
    Min2(word_end, timeline[k].end) - Max2(word_start, timeline[k].start)

\* The first turn, in timeline order, of maximum overlap.
FirstOfMaxOverlap ==
    CHOOSE k \in 1..Len(timeline) :
        /\ \A j \in 1..Len(timeline) : OverlapWith(j) <= OverlapWith(k)
        /\ \A j \in 1..(k - 1) : OverlapWith(j) < OverlapWith(k)

\* C26: for a word that overlaps some turn, get_speaker_for_word returns the
\* speaker of the turn of maximum overlap, the first such turn in timeline
\* order on a tie; and the call leaves the timeline as it was.
C26_MaxOverlapFirstOnTie ==
    /\ []((pc = "attributed" /\ \E k \in 1..Len(timeline) : OverlapWith(k) > 0)
            => attributed = timeline[FirstOfMaxOverlap].speaker)
    /\ [][timeline' = timeline]_vars

\* A word that overlaps two turns of different speakers equally, given to the
\* first.
C26_Witness ==
    /\ pc = "attributed"
    /\ Len(timeline) = 2
    /\ timeline[1].speaker # timeline[2].speaker
    /\ OverlapWith(1) > 0
    /\ OverlapWith(1) = OverlapWith(2)
    /\ attributed = timeline[1].speaker

\* The place of a status in the chain uploaded -> diarizing ->
\* diarization_complete -> transcribing -> aligning -> completed.
ChainOrder == <<"uploaded", "diarizing", "diarization_complete", "transcribing",
                "aligning", "completed">>
ChainPlace(st) == CHOOSE k \in 1..Len(ChainOrder) : ChainOrder[k] = st

\* C27: every status change of a task goes forward along the chain
\* uploaded -> diarizing -> diarization_complete -> transcribing -> aligning
\* -> completed (a stage that is imported, cached or not asked for may be
\* passed over), or from a non-terminal status to error; a record that is
\* created enters the chain at any place.
C27_StatusChain ==
    [][\A t \in Tasks :
          LET st == transcriptions[t].status
              st2 == transcriptions'[t].status
          IN st2 # st =>
                \/ st = "not_found"
                \/ st \notin Terminal /\ st2 = "error"
                \/ /\ st \notin Terminal
                   /\ st2 # "error"
                   /\ ChainPlace(st2) > ChainPlace(st)]_vars

\* The positions of the chunk loop (lines 367-506).
InChunkLoop == pc \in {"chunk", "fallback_fp16", "fallback_fp32", "progress", "live"}

\* floor(a / b) for b > 0, by its definition.
FloorOf(a, b) == CHOOSE q \in 0..a : q * b <= a /\ a < (q + 1) * b

\* C28: when the chunk with index i (0-based; chunk_index = i + 1) of n
\* planned chunks has been processed and its progress written, progress is
\* 10 + floor(80 * (i + 1) / n); during the chunk loop progress is within
\* 10..90. (A chunk passed over by `continue` writes no progress.)
C28_ProgressFormula ==
    /\ pc = "live" =>
          progress = 10 + FloorOf(80 * chunk_index, Len(natural_chunks))
    /\ InChunkLoop => progress \in 10..90

\* The second of three chunks processed: 10 + floor(160 / 3) = 63.
C28_Witness ==
    /\ pc = "live"
    /\ Len(natural_chunks) = 3
    /\ chunk_index = 2
    /\ progress = 63

\* The assembler's output over the words retained so far.
LiveSegments ==
    self_group_words(all_speaker_words, speaker_map, speaker_counter).segments

\* C29: after each processed chunk (the loop is at the next chunk, or past
\* the last), the task's result is the assembler's output, grouped and
\* merged, over all words retained so far in this run.
C29_LiveResult ==
    (pc \in {"chunk", "align"} /\ natural_chunks # <<>>) => result = LiveSegments

\* Thread w runs a task.
Busy(w) == workers[w].kind # "none"

\* C30: every worker started by POST /diarize or POST /transcribe ends (none
\* waits forever on the lock), and the step that ends it leaves its task at
\* status completed, diarization_complete or error.
C30_EveryWorkerEnds ==
    /\ \A w \in Workers : Busy(w) ~> ~Busy(w)
    /\ [][\A w \in Workers :
            (Busy(w) /\ ~Busy(w)') =>
                transcriptions'[workers[w].task].status
                    \in {"completed", "diarization_complete", "error"}]_vars

\* A worker waits at a `with model_lock:` that another worker holds.
C30_Witness ==
    \E w, v \in Workers :
        /\ w # v
        /\ model_lock = v
        /\ Busy(w)
        /\ workers[w].pc \in {"d_prepare", "t_chunk", "t_fp16_wait", "t_fp32_wait"}

\* C31: for a recording the diarization engine is invoked at most once,
\* whatever the interleaving of the requests and of their workers.
C31_DiarizedOnce == \A t \in Tasks : engine_runs[t] <= 1

\* C32: a cache hit, in upload_file or in run_diarization, gives a timeline
\* that was computed or imported for the same audio file.
C32_CacheOfSameFile ==
    [][/\ \A t \in Tasks :
            (upload_file(t) /\ ~transcript_file[Stem(t)] /\ cache[Stem(t)].exists)
                => cache[Stem(t)].of = t
       /\ \A w \in Workers :
            DiarizeCacheHit(w) => cache[Stem(workers[w].task)].of = workers[w].task]_vars

\* The request of the step is valid: the task is known and the index is
\* within the result.
ValidRename ==
    /\ call'.known
    /\ 0 <= call'.segment_index
    /\ call'.segment_index < Len(result)

\* C33: update_speaker with a valid segment_index gives speaker_name to every
\* segment that has the speaker of the indexed segment and leaves the other
\* speakers, and the number, order, start, timestamp and text of the
\* segments, as they were; with an unknown task or an index out of range it
\* returns the error and changes nothing.
C33_BulkRename ==
    [][call'.fn = "update_speaker" =>
        IF ValidRename
        THEN /\ Len(result') = Len(result)
             /\ \A k \in 1..Len(result) :
                   /\ result'[k].start = result[k].start
                   /\ result'[k].timestamp = result[k].timestamp
                   /\ result'[k].text = result[k].text
                   /\ result'[k].speaker =
                         IF result[k].speaker = result[call'.segment_index + 1].speaker
                         THEN call'.speaker_name
                         ELSE result[k].speaker
        ELSE /\ call'.returned = "error"
             /\ result' = result
             /\ status' = status]_vars

\* A rename that took two segments of one speaker and left the segment of
\* another between them.
C33_Witness ==
    /\ call.fn = "update_speaker"
    /\ call.returned = "success"
    /\ Len(result) = 3
    /\ result[1].speaker = "Doctor"
    /\ result[2].speaker = SpeakerName(1)
    /\ result[3].speaker = "Doctor"

C35_SmoothKeepsTime ==
    pc = "smoothed" =>
        /\ \A k \in 1..(Len(call.returned) - 1) :
              /\ call.returned[k].start <= call.returned[k + 1].start
              /\ call.returned[k].speaker # call.returned[k + 1].speaker
        /\ \A i \in 1..Len(call.df) :
              \E k \in 1..Len(call.returned) :
                  /\ call.returned[k].speaker = call.df[i].speaker
                  /\ call.returned[k].start <= call.df[i].start
                  /\ call.df[i].end <= call.returned[k].end

\* C36: within a run the speaker map is injective: two different cluster ids
\* never have the same display name.
C36_SpeakerMapInjective ==
    \A a, b \in DOMAIN speaker_map :
        a # b => speaker_map[a] # speaker_map[b]

\* C38: the poller stops polling once the remote job has reported COMPLETED,
\* FAILED or CANCELLED: no status request is made after such a report, and
\* after the status of a completed job is set the poller ends, also when
\* writing the files raises.
C38_PollerStops ==
    [][/\ job'.polls # job.polls => job.reported \notin RemoteFinal
       /\ (job.pc = "files" /\ job'.pc # "files") => job'.pc = "ended"]_vars

\* The final transcript of the run: the final grouping, merged, of a local
\* run, or the formatted output of the remote job.
FinalTranscript ==
    IF job.kind = "none"
    THEN MergeAdjacent(GroupWords(all_speaker_words, speaker_map, speaker_counter).segments)
    ELSE CloudResult

\* A transcription run: the local worker, or the poller of a remote
\* transcription.
TranscriptionRun == job.kind \in {"none", "transcribe"}

\* C37: when the status of a task is completed at the end of a transcription
\* run, result holds the final transcript of the run, and the run does not
\* write result again.
C37_ResultBeforeCompleted ==
    /\ []((TranscriptionRun /\ status = "completed") => result = FinalTranscript)
    /\ [][(TranscriptionRun /\ status = "completed")
            => (result' = result /\ job'.writes = job.writes)]_vars

====
